---- MODULE Spec2Model ----
(***************************************************************************)
(* bozobackup: the deduplicating, resumable, parallel file-ingestion       *)
(* pipeline.  The module models                                            *)
(*   - the atomic copy primitive copyFileWithHashAndTimestamps (and        *)
(*     copyFileWithTimestamps, which has the same control flow) over a     *)
(*     small file system of directory entries and inodes,                  *)
(*   - the run backupWithResume: resume filter, planning pass, space       *)
(*     check, execution pass (producer, workers, closer, collector),       *)
(*     accounting summary, ledger cleanup and the deferred flush,          *)
(*   - the in-memory hash index with its batch inserter, the durable       *)
(*     index and the resume ledger.                                        *)
(* SpecCopy is one direct call of the copy primitive; Spec is one run.     *)
(***************************************************************************)
EXTENDS Integers, Sequences, FiniteSets, TLC

\* ------------------------------------------------------------------ bounds

NumFiles == 2
MaxWorkers == 2
MaxLen == 2
BufLen == 2
MaxTime == 3
MaxWalkErrors == 1
MaxFaults == 1
MaxAdds == 3
MaxBatch == 2
MaxResults == 2
MaxName == 3

\* -------------------------------------------------------- program constants

DefaultBatchSize == 1000
SpaceBuffer == 104857600

\* ----------------------------------------------------------------- helpers

Min(a, b) == IF a < b THEN a ELSE b

Max(a, b) == IF a > b THEN a ELSE b

Times == 1..MaxTime

\* the clock value of a write made during the run: later than every source time
Now == MaxTime + 1

Bytes == {1, 2}

Bases == {"x", "y", "z"}

\* date.Format("2006-01"): two consecutive instants share a month
MonthOf(t) == (t + 1) \div 2

Months == {MonthOf(t) : t \in 0..Now}

DestPaths == Months \X Bases

Contents == UNION {[1..n -> Bytes] : n \in 0..MaxLen}

\* fmt.Sprintf("%x", sha256 of the byte stream): injective on byte streams
Digest(bytes) == <<Len(bytes)>> \o bytes

allowedExtensions == {".jpg", ".jpeg", ".heic", ".png", ".mp4", ".mov", ".mkv", ".webm", ".avi"}

Workers == 1..MaxWorkers

\* inode numbers: 0 is "no such file"; a temp file created for job i gets inode i;
\* NumFiles + 1 is a file that was at the destination before the run
InodeIds == 1..(NumFiles + 1)

OldInode == NumFiles + 1

NoInode == [content |-> <<>>, mtime |-> 0, synced |-> FALSE]

NoFile == [path |-> 0, ext |-> "", mtime |-> 0, date |-> 0, base |-> "", content |-> <<>>]

NoDest == <<0, "">>

\* ---------------------------------------------------------------- variables

VARIABLES
  \* the inputs of the run, fixed once it has started
  files, incremental, minMtime, workers, availableSpace, resumed, loadedLedger, batchSize,
  \* the main goroutine (backupWithResume)
  phase, unprocessedFiles, planningResults, execFiles, walkErrors, summary,
  \* the producer goroutine of evaluateFilesForPlanningParallel
  planProducer,
  \* the context
  ctxCancelled,
  \* processFilesParallel: the channels, the producer, the collector's slice
  jobs, jobsClosed, nextJob, producerDone,
  results, resultsClosed, orderedResults,
  \* the workers
  w,
  \* the hash index: in-memory map, batch buffer, durable table, mutex
  hashSet, mapWriter, records, dbRows, mutex,
  \* the destination file system: files, directory entries, month directories
  inodes, tmpLink, dstLink, dirs,
  \* the resume ledger, in memory and on disk
  ProcessedFiles, stateFile,
  \* the ResumeState's header fields, the text of the state file, the state loaded from it
  rsMeta, stateText, loadedState,
  \* the number of I/O failures the environment has injected
  faults,
  \* what has happened so far (read by the properties only)
  hist

inputVars == <<files, incremental, minMtime, workers, availableSpace, resumed, loadedLedger, batchSize>>

mainVars ==
  <<phase, unprocessedFiles, planningResults, planProducer, execFiles, walkErrors, summary>>

chanVars == <<jobs, jobsClosed, nextJob, producerDone, results, resultsClosed, orderedResults>>

indexVars == <<hashSet, mapWriter, records, dbRows, mutex>>

fsVars == <<inodes, tmpLink, dstLink, dirs>>

resumeVars == <<rsMeta, stateText, loadedState>>

ledgerVars == <<ProcessedFiles, stateFile, rsMeta, stateText, loadedState>>

vars ==
  <<inputVars, mainVars, chanVars, indexVars, fsVars, ledgerVars, ctxCancelled, w, faults, hist>>

NoSummary ==
  [Copied |-> 0, Skipped |-> 0, Duplicates |-> 0, Errors |-> 0,
   CopiedFiles |-> <<>>, SkippedFiles |-> <<>>, DuplicateFiles |-> <<>>, ErrorList |-> <<>>,
   TotalBytes |-> 0, TotalFiles |-> 0, WalkErrors |-> 0]

NoStateFile == [exists |-> FALSE, paths |-> {}]

\* &ResumeState{ProcessedFiles: make(map[string]bool)}: the zero values of the header fields
NoResume == [err |-> FALSE, SourceDir |-> <<>>, DestDir |-> <<>>, Incremental |-> FALSE,
             ProcessedFiles |-> {}]

NoHist ==
  [returned |-> {}, cut |-> {}, cancelledInExec |-> FALSE, markedAtCancel |-> FALSE,
   passReturned |-> FALSE, summarised |-> FALSE, marked |-> {}, done |-> {},
   failed |-> {}, committed |-> <<>>, dbFailed |-> FALSE, reads |-> {}]

\* a worker that holds no job
IdleWorker ==
  [pc |-> "idle", idx |-> 0, file |-> NoFile, dest |-> NoDest, state |-> "",
   fd |-> 0, fdOpen |-> FALSE, off |-> 0, rd |-> 0, hacc |-> <<>>, srcTs |-> 0,
   retErr |-> "", hash |-> <<>>, err |-> "", bytes |-> 0, dbIns |-> FALSE]

\* ------------------------------------------------------------- file system

\* an inode that no directory entry and no open descriptor refers to is gone
Live(i, tl, dl, ws) ==
  \/ \E d \in DestPaths : tl[d] = i \/ dl[d] = i
  \/ \E k \in Workers : ws[k].fdOpen /\ ws[k].fd = i

Collect(ino, tl, dl, ws) ==
  [i \in InodeIds |-> IF Live(i, tl, dl, ws) THEN ino[i] ELSE NoInode]

\* a write of data at offset off through a descriptor (a gap reads as zero bytes)
Overlay(c, off, data) ==
  [i \in 1..Max(Len(c), off + Len(data)) |->
     IF i > off /\ i <= off + Len(data) THEN data[i - off]
     ELSE IF i <= Len(c) THEN c[i] ELSE 0]

\* what os.Stat(path) of a destination path sees
DstExists(d) == dstLink[d] # 0

TmpExists(d) == tmpLink[d] # 0

\* ------------------------------------- copyFileWithHashAndTimestamps steps
\* Each step is one system call of the function together with the return it may
\* take.  Return applies the deferred func (out.Close(); if ctx.Err() != nil
\* { os.Remove(tmpDst) }) when it was registered, i.e. after os.Create succeeded.

\* a copy whose deferred func never removes the temp file
RemovesTmpExplicitOnly(explicit, deferred) == explicit

\* os.Remove(tmpDst) done explicitly before a return, or by the deferred func
RemovesTmp(explicit, deferred) == explicit \/ (deferred /\ ctxCancelled)

Return(k, err, explicit, deferred, ino) ==
  LET d == w[k].dest
      tl == IF RemovesTmp(explicit, deferred) THEN [tmpLink EXCEPT ![d] = 0] ELSE tmpLink
      ws == [w EXCEPT ![k].pc = "copied", ![k].retErr = err, ![k].fdOpen = FALSE,
                      ![k].fd = 0, ![k].off = 0, ![k].srcTs = 0, ![k].hacc = <<>>,
                      ![k].hash = IF err = "nil" THEN Digest(w[k].hacc) ELSE <<>>]
  IN /\ tmpLink' = tl
     /\ w' = ws
     /\ inodes' = Collect(ino, tl, dstLink, ws)
     /\ dstLink' = dstLink

\* getFileTimestamps(src); os.Open(src)
CopyOpen(k) ==
  /\ w[k].pc = "open"
  /\ \/ /\ w' = [w EXCEPT ![k].pc = "create", ![k].srcTs = w[k].file.mtime]
        /\ UNCHANGED fsVars
     \/ Return(k, "io", FALSE, FALSE, inodes)

\* os.Create(tmpDst): a new file, or the existing one truncated
CopyCreate(k) ==
  /\ w[k].pc = "create"
  /\ \/ LET d == w[k].dest
            i == IF tmpLink[d] # 0 THEN tmpLink[d] ELSE w[k].idx
        IN /\ inodes' = [inodes EXCEPT ![i] = [content |-> <<>>, mtime |-> Now, synced |-> FALSE]]
           /\ tmpLink' = [tmpLink EXCEPT ![d] = i]
           /\ w' = [w EXCEPT ![k].pc = "loop", ![k].fd = i, ![k].fdOpen = TRUE]
           /\ UNCHANGED dstLink
     \/ Return(k, "io", FALSE, FALSE, inodes)

\* getFileHash(path): io.Copy of the whole file into a new hasher, then "%x"
getFileHash(f) == Digest(f.content)

\* a copy loop whose hasher keeps the last chunk only
CopyLoopHashesLastChunk(k) ==
  /\ w[k].pc = "loop"
  /\ LET c == w[k].file.content
         left == Len(c) - w[k].rd
     IN IF ctxCancelled
        THEN Return(k, "ctx", FALSE, TRUE, inodes)
        ELSE \/ /\ left > 0
                /\ \E n \in 1..Min(BufLen, left) :
                     LET data == SubSeq(c, w[k].rd + 1, w[k].rd + n)
                         i == w[k].fd
                     IN /\ inodes' = [inodes EXCEPT ![i] =
                              [content |-> Overlay(inodes[i].content, w[k].off, data),
                               mtime |-> Now, synced |-> FALSE]]
                        /\ w' = [w EXCEPT ![k].rd = @ + n, ![k].off = @ + n,
                                          ![k].hacc = data]
                        /\ UNCHANGED <<tmpLink, dstLink>>
             \/ /\ left = 0
                /\ w' = [w EXCEPT ![k].pc = "sync"]
                /\ UNCHANGED fsVars
             \/ Return(k, "io", FALSE, TRUE, inodes)

\* one iteration of the copy loop: the cancellation check, in.Read(buf) and
\* multiWriter.Write(buf[:n]) to the temp file and the hasher
CopyLoop(k) ==
  /\ w[k].pc = "loop"
  /\ LET c == w[k].file.content
         left == Len(c) - w[k].rd
     IN IF ctxCancelled
        THEN Return(k, "ctx", FALSE, TRUE, inodes)
        ELSE \/ /\ left > 0
                /\ \E n \in 1..Min(BufLen, left) :
                     LET data == SubSeq(c, w[k].rd + 1, w[k].rd + n)
                         i == w[k].fd
                     IN /\ inodes' = [inodes EXCEPT ![i] =
                              [content |-> Overlay(inodes[i].content, w[k].off, data),
                               mtime |-> Now, synced |-> FALSE]]
                        /\ w' = [w EXCEPT ![k].rd = @ + n, ![k].off = @ + n,
                                          ![k].hacc = @ \o data]
                        /\ UNCHANGED <<tmpLink, dstLink>>
             \/ /\ left = 0
                /\ w' = [w EXCEPT ![k].pc = "sync"]
                /\ UNCHANGED fsVars
             \/ Return(k, "io", FALSE, TRUE, inodes)

\* out.Sync()
CopySync(k) ==
  /\ w[k].pc = "sync"
  /\ \/ /\ inodes' = [inodes EXCEPT ![w[k].fd].synced = TRUE]
        /\ w' = [w EXCEPT ![k].pc = "close"]
        /\ UNCHANGED <<tmpLink, dstLink>>
     \/ Return(k, "io", FALSE, TRUE, inodes)

\* out.Close()
CopyClose(k) ==
  /\ w[k].pc = "close"
  /\ \/ LET ws == [w EXCEPT ![k].pc = "ctx2", ![k].fdOpen = FALSE]
        IN /\ w' = ws
           /\ inodes' = Collect(inodes, tmpLink, dstLink, ws)
           /\ UNCHANGED <<tmpLink, dstLink>>
     \/ Return(k, "io", FALSE, TRUE, inodes)

\* the check for cancellation before the final operations
CopyCtxCheck(k) ==
  /\ w[k].pc = "ctx2"
  /\ IF ctxCancelled
     THEN Return(k, "ctx", TRUE, TRUE, inodes)
     ELSE /\ w' = [w EXCEPT ![k].pc = "chtimes"]
          /\ UNCHANGED fsVars

\* a copy that renames without restoring the source timestamps
CopyChtimesSkipped(k) ==
  /\ w[k].pc = "chtimes"
  /\ w' = [w EXCEPT ![k].pc = "rename"]
  /\ UNCHANGED fsVars

\* setFileTimestamps(tmpDst, sourceTimestamps): os.Chtimes on the path
CopyChtimes(k) ==
  /\ w[k].pc = "chtimes"
  /\ LET d == w[k].dest
     IN \/ /\ TmpExists(d)
           /\ inodes' = [inodes EXCEPT ![tmpLink[d]].mtime = w[k].srcTs]
           /\ w' = [w EXCEPT ![k].pc = "rename"]
           /\ UNCHANGED <<tmpLink, dstLink>>
        \/ Return(k, "io", TRUE, TRUE, inodes)

\* os.Rename(tmpDst, dst), then verifyTimestamps (non-fatal) and the return of the hash
CopyRename(k) ==
  /\ w[k].pc = "rename"
  /\ LET d == w[k].dest
     IN \/ /\ TmpExists(d)
           /\ LET dl == [dstLink EXCEPT ![d] = tmpLink[d]]
                  tl == [tmpLink EXCEPT ![d] = 0]
                  ws == [w EXCEPT ![k].pc = "copied", ![k].retErr = "nil",
                                  ![k].fdOpen = FALSE, ![k].fd = 0, ![k].off = 0,
                                  ![k].srcTs = 0, ![k].hacc = <<>>,
                                  ![k].hash = Digest(w[k].hacc)]
              IN /\ dstLink' = dl
                 /\ tmpLink' = tl
                 /\ w' = ws
                 /\ inodes' = Collect(inodes, tl, dl, ws)
        \/ Return(k, "io", TRUE, TRUE, inodes)

\* metadataRegistry.ExtractBestDate with the fallback to the modification time
BestDate(f) == IF f.date # 0 THEN f.date ELSE f.mtime

\* filepath.Join(destDir, date.Format("2006-01"), filepath.Base(path))
DestPathOf(f) == <<MonthOf(BestDate(f)), f.base>>

\* the I/O failures the environment may inject into a run; none when several
\* workers contend for one destination path, where the contention itself makes
\* system calls fail
FaultBudget ==
  IF workers > 1 /\ \E i, j \in 1..Len(files) :
                      i # j /\ DestPathOf(files[i]) = DestPathOf(files[j])
  THEN 0 ELSE MaxFaults

\* os.Chtimes and os.Rename fail by themselves when the temp path holds no file
FailsUnforced(k) == ~(w[k].pc \in {"chtimes", "rename"} /\ ~TmpExists(w[k].dest))

\* the next step of the copy of worker k; a system call that could succeed fails
\* only while the environment has failures left to inject
CopyStep(k) ==
  /\ \/ CopyOpen(k)
     \/ CopyCreate(k)
     \/ CopyLoop(k)
     \/ CopySync(k)
     \/ CopyClose(k)
     \/ CopyCtxCheck(k)
     \/ CopyChtimes(k)
     \/ CopyRename(k)
  /\ faults' = faults + (IF w'[k].retErr = "io" /\ FailsUnforced(k) THEN 1 ELSE 0)
  /\ faults' <= FaultBudget
  /\ UNCHANGED dirs

\* the interrupt handler's cancel()
Cancel ==
  /\ ~ctxCancelled
  /\ ctxCancelled' = TRUE
  /\ hist' = [hist EXCEPT !.cancelledInExec = (phase = "exec"),
                           !.markedAtCancel = (ProcessedFiles # loadedLedger)]
  /\ UNCHANGED <<faults, inputVars, mainVars, chanVars, indexVars, fsVars, ledgerVars, w>>

\* ------------------------------------------------ one direct call of the copy

\* the caller of SpecCopy: a source file of any content and time, a destination
\* path that holds no file and no temp file, a context that may already be
\* cancelled (TestCopyFileWithHashAndTimestampsCancellation)
InitCopy ==
  /\ files = <<>> /\ incremental = FALSE /\ minMtime = 0 /\ workers = 1
  /\ availableSpace = 0 /\ resumed = FALSE /\ loadedLedger = {}
  /\ batchSize = DefaultBatchSize
  /\ phase = "unit" /\ ctxCancelled \in BOOLEAN
  /\ unprocessedFiles = <<>> /\ planningResults = <<>> /\ execFiles = <<>>
  /\ planProducer = "none"
  /\ jobs = <<>> /\ jobsClosed = FALSE /\ nextJob = 1 /\ producerDone = FALSE
  /\ results = <<>> /\ resultsClosed = FALSE /\ orderedResults = <<>>
  /\ \E c \in Contents, t \in Times :
       w = [k \in Workers |->
              IF k = 1
              THEN [IdleWorker EXCEPT !.pc = "open", !.idx = 1,
                      !.file = [path |-> 101, ext |-> ".jpg", mtime |-> t, date |-> t,
                                base |-> "x", content |-> c],
                      !.dest = <<MonthOf(t), "x">>]
              ELSE IdleWorker]
  /\ dirs = Months
  /\ hashSet = {} /\ mapWriter = 0 /\ records = <<>> /\ dbRows = {} /\ mutex = 0
  /\ inodes = [i \in InodeIds |-> NoInode]
  /\ tmpLink = [d \in DestPaths |-> 0]
  /\ dstLink = [d \in DestPaths |-> 0]
  /\ ProcessedFiles = {} /\ stateFile = NoStateFile
  /\ rsMeta = NoResume /\ stateText = <<>> /\ loadedState = NoResume
  /\ walkErrors = 0 /\ summary = NoSummary
  /\ faults = 0
  /\ hist = NoHist

CopyCall ==
  /\ CopyStep(1)
  /\ UNCHANGED <<inputVars, mainVars, chanVars, indexVars, ledgerVars, ctxCancelled, hist>>

NextCopy == CopyCall \/ Cancel

SpecCopy == InitCopy /\ [][NextCopy]_vars

\* ------------------------------------------------------------ the run: inputs

\* the kinds of source file a discovery may hold
KindPhotoX == [ext |-> ".jpg", mtime |-> 3, date |-> 3, base |-> "x", content |-> <<1>>]

\* the same bytes under another name, with no date in its metadata
KindPhotoY == [ext |-> ".jpg", mtime |-> 3, date |-> 0, base |-> "y", content |-> <<1>>]

\* an extension that is not backed up
KindText == [ext |-> ".txt", mtime |-> 3, date |-> 3, base |-> "z", content |-> <<2>>]

\* a file as old as the previous backup
KindOld == [ext |-> ".jpg", mtime |-> 1, date |-> 1, base |-> "y", content |-> <<2>>]

\* other bytes whose metadata date leads to the destination path of KindPhotoX
KindClash == [ext |-> ".png", mtime |-> 2, date |-> 3, base |-> "x", content |-> <<2>>]

FileKinds == {KindPhotoX, KindPhotoY, KindText, KindOld, KindClash}

\* filepath.Walk in getAllFiles: the i-th regular file found
SourceFile(i, kind) ==
  [path |-> 100 + i, ext |-> kind.ext, mtime |-> kind.mtime, date |-> kind.date,
   base |-> kind.base, content |-> kind.content]

KindSeqs == [1..NumFiles -> FileKinds]

Discovery(ks) == [i \in 1..NumFiles |-> SourceFile(i, ks[i])]

PathsOf(fs) == {fs[i].path : i \in 1..Len(fs)}

\* the durable index a previous run left: empty, or one row for the bytes <<1>>
PriorRow == [hash |-> Digest(<<1>>), dest |-> <<1, "x">>, copiedAt |-> 1]

\* a file that was at the destination before the run
PriorInode == [content |-> <<2, 1>>, mtime |-> 1, synced |-> TRUE]

PriorDest == <<2, "x">>

\* a start that loads nothing from the table
loadNoHashes(rows) == {}

\* SELECT hash FROM files WHERE hash IS NOT NULL, the query and every scan succeeding
loadExistingHashes(rows) == {r.hash : r \in rows}

\* SELECT MAX(copied_at) FROM files; 0 is the zero time of an empty table
getLastBackupTime(rows) ==
  IF rows = {} THEN 0
  ELSE CHOOSE t \in {r.copiedAt : r \in rows} : \A r \in rows : r.copiedAt <= t

\* evaluateFileForBackup as a function of the file, the mode, the destination
\* paths that hold a file and the hashes in the map
evaluateFileForBackup(f, inc, mm, occupied, known) ==
  IF f.ext \notin allowedExtensions THEN "SkippedExtension"
  ELSE IF inc /\ mm > 0 /\ f.mtime <= mm THEN "SkippedIncremental"
  ELSE IF BestDate(f) = 0 THEN "SkippedDate"
  ELSE IF DestPathOf(f) \in occupied THEN "SkippedDestExists"
  ELSE IF Digest(f.content) \in known THEN "DuplicateHash"
  ELSE "Copied"

\* the watermark of a run that starts on the rows of the durable index
Watermark(inc, rows) == IF inc THEN getLastBackupTime(rows) ELSE 0

\* what a run may find: nothing, the index of a previous backup (with or
\* without the incremental flag), a file at the destination, or walk errors
EnvFresh == [incremental |-> FALSE, rows |-> {}, old |-> FALSE, walk |-> 0]

EnvIndexed == [incremental |-> FALSE, rows |-> {PriorRow}, old |-> FALSE, walk |-> 0]

EnvIncremental == [incremental |-> TRUE, rows |-> {PriorRow}, old |-> FALSE, walk |-> 0]

EnvOccupied == [incremental |-> FALSE, rows |-> {}, old |-> TRUE, walk |-> 0]

\* part of the source tree cannot be read: filepath.Walk reports errors
EnvUnreadable == [incremental |-> FALSE, rows |-> {}, old |-> FALSE, walk |-> MaxWalkErrors]

\* the incremental flag on a first backup: the table is empty, there is no watermark
EnvFirstIncremental == [incremental |-> TRUE, rows |-> {}, old |-> FALSE, walk |-> 0]

Environments ==
  {EnvFresh, EnvIndexed, EnvIncremental, EnvOccupied, EnvUnreadable, EnvFirstIncremental}

\* the runs with more than one worker: files that contend for a hash, for the
\* hash index, or for a destination path
ParallelCases ==
  {<<KindPhotoX, KindPhotoY, EnvFresh>>,
   <<KindClash, KindPhotoY, EnvIndexed>>,
   <<KindPhotoX, KindClash, EnvFresh>>}

\* the verdict on file f when it is the first file a run in env looks at
FirstVerdict(env, f) ==
  evaluateFileForBackup(f, env.incremental, Watermark(env.incremental, env.rows),
                        IF env.old THEN {PriorDest} ELSE {}, loadExistingHashes(env.rows))

\* the environment that env adds one circumstance to
Without(env) == IF env = EnvIncremental THEN EnvIndexed ELSE EnvFresh

\* the runs with one worker: every discovery in a fresh destination; an index, a
\* watermark or an occupied destination with the discoveries whose verdicts it
\* changes; walk errors, and the incremental flag on a first backup, with one
\* discovery each
SerialCase(ks, env) ==
  \/ env = EnvFresh
  \/ /\ env = EnvUnreadable
     /\ \A i \in 1..NumFiles : ks[i] = IF i = 1 THEN KindPhotoX ELSE KindText
  \/ /\ env = EnvFirstIncremental
     /\ \A i \in 1..NumFiles : ks[i] = IF i = 1 THEN KindOld ELSE KindPhotoX
  \/ /\ env \in {EnvIndexed, EnvIncremental, EnvOccupied}
     /\ \E i \in 1..NumFiles :
          FirstVerdict(env, SourceFile(i, ks[i])) # FirstVerdict(Without(env), SourceFile(i, ks[i]))

\* the --workers flag: any integer; main passes it on unchanged
WorkerCounts == {-1, 0} \cup (1..MaxWorkers)

\* the run with a worker count that is not positive
InvalidCountCase(ks, env) ==
  /\ env = EnvFresh
  /\ \A i \in 1..NumFiles : ks[i] = IF i = 1 THEN KindPhotoX ELSE KindText

NoResult ==
  [path |-> 0, dest |-> NoDest, state |-> "nil", err |-> "", bytes |-> 0, dbIns |-> FALSE]

\* the state after the index, the ledger and the discovery have been loaded
Init ==
  /\ workers \in WorkerCounts
  /\ \E ks \in KindSeqs, env \in Environments :
       /\ workers > 1 => <<ks[1], ks[2], env>> \in ParallelCases
       /\ workers = 1 => SerialCase(ks, env)
       /\ workers < 1 => InvalidCountCase(ks, env)
       /\ files = Discovery(ks)
       /\ incremental = env.incremental
       /\ dbRows = env.rows
       /\ inodes = [i \in InodeIds |-> IF env.old /\ i = OldInode THEN PriorInode ELSE NoInode]
       /\ dstLink = [d \in DestPaths |-> IF env.old /\ d = PriorDest THEN OldInode ELSE 0]
       /\ dirs = (IF env.old THEN {PriorDest[1]} ELSE {})
       /\ walkErrors = env.walk
  /\ minMtime = (IF incremental THEN getLastBackupTime(dbRows) ELSE 0)
  /\ availableSpace \in {SpaceBuffer, SpaceBuffer + MaxLen * NumFiles}
  /\ resumed \in BOOLEAN
  /\ loadedLedger \in (IF resumed THEN SUBSET PathsOf(files) \ {{}} ELSE {{}})
  /\ batchSize = DefaultBatchSize
  /\ phase = "filter" /\ ctxCancelled = FALSE
  /\ unprocessedFiles = <<>> /\ planningResults = <<>> /\ execFiles = <<>>
  /\ planProducer = "none"
  /\ jobs = <<>> /\ jobsClosed = FALSE /\ nextJob = 1 /\ producerDone = FALSE
  /\ results = <<>> /\ resultsClosed = FALSE /\ orderedResults = <<>>
  /\ w = [k \in Workers |-> [IdleWorker EXCEPT !.pc = "none"]]
  /\ hashSet = loadExistingHashes(dbRows) /\ mapWriter = 0 /\ records = <<>> /\ mutex = 0
  /\ tmpLink = [d \in DestPaths |-> 0]
  /\ ProcessedFiles = loadedLedger
  /\ stateFile = [exists |-> resumed, paths |-> loadedLedger]
  /\ rsMeta = NoResume /\ stateText = <<>> /\ loadedState = NoResume
  /\ summary = NoSummary
  /\ faults = 0
  /\ hist = NoHist

\* ------------------------------------------------- the run: the main goroutine

\* the process is alive and its goroutines may run
Running == phase \in {"filter", "plan", "space", "exec", "flush", "panic", "index"}

\* a test that lets the file modified at the watermark through
skipsOlderOnly(f) == incremental /\ minMtime > 0 /\ f.mtime < minMtime

\* incremental && minMtime > 0 && candidate.Info.ModTime().Unix() <= minMtime
skipsIncremental(f) == incremental /\ minMtime > 0 /\ f.mtime <= minMtime

\* a ledger lookup that never finds a path
NeverProcessed(path) == FALSE

\* rs.ProcessedFiles[filePath]
IsFileProcessed(path) == path \in ProcessedFiles

\* for _, file := range files { if !IsFileProcessed(file.Path) { append } }
RECURSIVE FilterUnprocessed(_)
FilterUnprocessed(fs) ==
  IF fs = <<>> THEN <<>>
  ELSE IF ~IsFileProcessed(Head(fs).path)
       THEN <<Head(fs)>> \o FilterUnprocessed(Tail(fs))
       ELSE FilterUnprocessed(Tail(fs))

ResumeFilter ==
  /\ phase = "filter"
  /\ unprocessedFiles' = FilterUnprocessed(files)
  /\ phase' = "plan"
  /\ UNCHANGED <<faults, inputVars, planningResults, planProducer, execFiles, walkErrors, summary, chanVars,
                 indexVars, fsVars, ledgerVars, ctxCancelled, w, hist>>

\* the planning verdict of one file: file-system date only, no hash
evaluateFileForPlanning(f) ==
  IF f.ext \notin allowedExtensions
  THEN [ShouldCopy |-> FALSE, Size |-> 0, Reason |-> "Extension not allowed"]
  ELSE IF skipsIncremental(f)
  THEN [ShouldCopy |-> FALSE, Size |-> 0, Reason |-> "File older than last backup"]
  ELSE IF f.mtime = 0
  THEN [ShouldCopy |-> FALSE, Size |-> 0, Reason |-> "No valid filesystem date"]
  ELSE IF DstExists(<<MonthOf(f.mtime), f.base>>)
  THEN [ShouldCopy |-> FALSE, Size |-> 0, Reason |-> "File already exists at destination"]
  ELSE [ShouldCopy |-> TRUE, Size |-> Len(f.content), Reason |-> "File ready for backup"]

\* what evaluateFilesForPlanningParallel returns for a worker count n: with no
\* worker the results channel is closed at once and the slice keeps its zero
\* values; with workers every file is evaluated
PlanningResults(fs, n) ==
  [i \in 1..Len(fs) |->
     IF n = 0 THEN [ShouldCopy |-> FALSE, Size |-> 0, Reason |-> ""]
     ELSE evaluateFileForPlanning(fs[i])]

\* the producer goroutine of evaluateFilesForPlanningParallel when the function
\* returns: with no worker the jobs channel has no buffer and no receiver, so
\* the producer stays in its select on the first file; with workers every job
\* has been received before the results channel is closed
PlanningProducer(fs, n) == IF n = 0 /\ fs # <<>> THEN "blocked" ELSE "done"

\* evaluateFilesForPlanningParallel (make(chan job, workers*2) panics on a negative
\* size), then the check for cancellation after planning
PlanningPass ==
  /\ phase = "plan"
  /\ IF workers < 0
     THEN /\ phase' = "panic"
          /\ UNCHANGED <<planningResults, planProducer>>
     ELSE IF ctxCancelled
     THEN /\ phase' = "flush"
          /\ UNCHANGED <<planningResults, planProducer>>
     ELSE /\ planningResults' = PlanningResults(unprocessedFiles, workers)
          /\ planProducer' = PlanningProducer(unprocessedFiles, workers)
          /\ phase' = "space"
  /\ UNCHANGED <<faults, inputVars, unprocessedFiles, execFiles, walkErrors, summary, chanVars,
                 indexVars, fsVars, ledgerVars, ctxCancelled, w, hist>>

RECURSIVE EstimatedTotalSize(_)
EstimatedTotalSize(prs) ==
  IF prs = <<>> THEN 0
  ELSE (IF Head(prs).ShouldCopy THEN Head(prs).Size ELSE 0) + EstimatedTotalSize(Tail(prs))

\* the planning producer's select takes case <-ctx.Done(): it returns and its
\* deferred close(jobs) runs
PlanProducerReturn ==
  /\ Running
  /\ planProducer = "blocked"
  /\ ctxCancelled
  /\ planProducer' = "done"
  /\ UNCHANGED <<faults, inputVars, phase, unprocessedFiles, planningResults, execFiles,
                 walkErrors, summary, chanVars, indexVars, fsVars, ledgerVars, ctxCancelled,
                 w, hist>>

\* a run that starts the execution pass whatever the free space is
SpaceCheckSkipped ==
  /\ phase = "space"
  /\ execFiles' = unprocessedFiles
  /\ phase' = "exec"
  /\ workers' = Max(workers, 1)
  /\ orderedResults' = [i \in 1..Len(unprocessedFiles) |-> NoResult]
  /\ w' = [k \in Workers |-> IF k <= workers' THEN IdleWorker ELSE w[k]]
  /\ UNCHANGED <<faults, files, incremental, minMtime, availableSpace, resumed, loadedLedger,
                 batchSize, unprocessedFiles, planningResults, planProducer, walkErrors, summary,
                 jobs, jobsClosed, nextJob, producerDone, results, resultsClosed,
                 indexVars, fsVars, ledgerVars, ctxCancelled, hist>>

\* the aggregation of the planning results, the space check, the clamp of the
\* worker count (if workers <= 0 { workers = 1 }) and the start of
\* processFilesParallel (channels, workers, slice)
SpaceCheck ==
  /\ phase = "space"
  /\ execFiles' = unprocessedFiles
  /\ IF availableSpace < EstimatedTotalSize(planningResults) + SpaceBuffer
     THEN /\ phase' = "flush"
          /\ UNCHANGED <<workers, orderedResults, w>>
     ELSE /\ phase' = "exec"
          /\ workers' = Max(workers, 1)
          /\ orderedResults' = [i \in 1..Len(unprocessedFiles) |-> NoResult]
          /\ w' = [k \in Workers |-> IF k <= workers' THEN IdleWorker ELSE w[k]]
  /\ UNCHANGED <<faults, files, incremental, minMtime, availableSpace, resumed, loadedLedger,
                 batchSize, unprocessedFiles, planningResults, planProducer, walkErrors, summary,
                 jobs, jobsClosed, nextJob, producerDone, results, resultsClosed,
                 indexVars, fsVars, ledgerVars, ctxCancelled, hist>>

\* processFilesParallel has been called: its goroutines exist
PassStarted == w[1].pc # "none"

\* ------------------------------------------- processFilesParallel: goroutines

\* the process ends: its goroutines, channels, locks and descriptors are gone;
\* what it wrote to the file system, the index and the state file stays
ProcessExit(ph) ==
  LET gone == [k \in Workers |-> [IdleWorker EXCEPT !.pc = "none"]]
  IN /\ phase' = ph
     /\ w' = gone
     /\ jobs' = <<>> /\ jobsClosed' = FALSE /\ nextJob' = 1 /\ producerDone' = FALSE
     /\ results' = <<>> /\ resultsClosed' = FALSE
     /\ mutex' = 0
     /\ mapWriter' = 0
     /\ planProducer' = "none"
     /\ inodes' = Collect(inodes, tmpLink, dstLink, gone)

\* make(chan job, workers*2), make(chan resultWithIndex, workers*2)
ChanCap == workers * 2

\* the producer's select: a job is sent when the channel has room
ProduceJob ==
  /\ phase \in {"exec", "flush", "panic"}
  /\ PassStarted
  /\ ~producerDone
  /\ nextJob <= Len(execFiles)
  /\ Len(jobs) < ChanCap
  /\ jobs' = Append(jobs, [index |-> nextJob, file |-> execFiles[nextJob]])
  /\ nextJob' = nextJob + 1
  /\ UNCHANGED <<faults, inputVars, mainVars, jobsClosed, producerDone, results, resultsClosed,
                 orderedResults, indexVars, fsVars, ledgerVars, ctxCancelled, w, hist>>

\* the producer returns, at the end of the range or on ctx.Done(): defer close(jobs)
ProducerClose ==
  /\ phase \in {"exec", "flush", "panic"}
  /\ PassStarted
  /\ ~producerDone
  /\ nextJob > Len(execFiles) \/ ctxCancelled
  /\ producerDone' = TRUE
  /\ jobsClosed' = TRUE
  /\ UNCHANGED <<faults, inputVars, mainVars, jobs, nextJob, results, resultsClosed,
                 orderedResults, indexVars, fsVars, ledgerVars, ctxCancelled, w, hist>>

\* for job := range jobs: the next job is received
WorkerReceive(k) ==
  /\ Running
  /\ w[k].pc = "idle"
  /\ jobs # <<>>
  /\ w' = [w EXCEPT ![k] = [IdleWorker EXCEPT !.pc = "eval", !.idx = Head(jobs).index,
                                              !.file = Head(jobs).file]]
  /\ jobs' = Tail(jobs)
  /\ UNCHANGED <<faults, inputVars, mainVars, jobsClosed, nextJob, producerDone, results,
                 resultsClosed, orderedResults, indexVars, fsVars, ledgerVars,
                 ctxCancelled, hist>>

\* for job := range jobs: the channel is closed and drained; defer wg.Done()
WorkerExit(k) ==
  /\ Running
  /\ w[k].pc = "idle"
  /\ jobs = <<>> /\ jobsClosed
  /\ w' = [w EXCEPT ![k].pc = "exited"]
  /\ UNCHANGED <<faults, inputVars, mainVars, chanVars, indexVars, fsVars, ledgerVars,
                 ctxCancelled, hist>>

\* processSingleFile returns its result: the file is one whose processing was
\* completed before the collector returned, if the collector is still collecting
Completed(h, k) ==
  [h EXCEPT !.done = IF phase = "exec" THEN @ \cup {w[k].file.path} ELSE @]

\* a result that reports an insert whatever happened
ResultInserted(k, st, e, b, ins, d) ==
  w' = [w EXCEPT ![k].pc = "result", ![k].state = st, ![k].err = e, ![k].bytes = b,
                 ![k].dbIns = TRUE, ![k].dest = d, ![k].retErr = "", ![k].rd = 0,
                 ![k].hash = <<>>]

\* result.Complete(state, err, bytes)
Result(k, st, e, b, ins, d) ==
  w' = [w EXCEPT ![k].pc = "result", ![k].state = st, ![k].err = e, ![k].bytes = b,
                 ![k].dbIns = ins, ![k].dest = d, ![k].retErr = "", ![k].rd = 0,
                 ![k].hash = <<>>]

\* the history after classifyAndProcessFile has returned for the file of worker k
Returned(h, k) ==
  [h EXCEPT !.returned = @ \cup {w[k].file.path},
            !.cut = IF ctxCancelled THEN @ \cup {w[k].file.path} ELSE @]

\* classifyAndProcessFile returns result.Complete(state, err, bytes)
Classified(k, st, e, b, ins, d) ==
  /\ Result(k, st, e, b, ins, d)
  /\ hist' = Returned(hist, k)

\* NewFileCandidate fails (os.Stat of the source): processSingleFile returns an
\* ErrorStat result at once, before classifyAndProcessFile and the mark
CandidateError(k) ==
  /\ Running
  /\ w[k].pc = "eval"
  /\ faults < FaultBudget
  /\ faults' = faults + 1
  /\ w' = [w EXCEPT ![k].pc = "send", ![k].state = "ErrorStat", ![k].err = "io"]
  /\ hist' = [Completed(hist, k) EXCEPT !.failed = @ \cup {w[k].file.path}]
  /\ UNCHANGED <<inputVars, mainVars, chanVars, indexVars, fsVars, ledgerVars, ctxCancelled>>

\* a classifier that goes on to the hash without looking at the destination
EvaluateChecksNoDestCheck(k) ==
  /\ Running
  /\ w[k].pc = "eval"
  /\ LET f == w[k].file
     IN IF f.ext \notin allowedExtensions
        THEN /\ Classified(k, "SkippedExtension", "", 0, FALSE, NoDest)
             /\ UNCHANGED dirs
        ELSE IF skipsIncremental(f)
        THEN /\ Classified(k, "SkippedIncremental", "", 0, FALSE, NoDest)
             /\ UNCHANGED dirs
        ELSE IF BestDate(f) = 0
        THEN /\ Classified(k, "SkippedDate", "", 0, FALSE, NoDest)
             /\ UNCHANGED dirs
        ELSE /\ dirs' = dirs \cup {MonthOf(BestDate(f))}
             /\ w' = [w EXCEPT ![k].pc = "hash", ![k].dest = DestPathOf(f)]
             /\ UNCHANGED hist
  /\ UNCHANGED <<faults, inputVars, mainVars, chanVars, indexVars, inodes, tmpLink, dstLink,
                 ledgerVars, ctxCancelled>>

\* evaluateFileForBackup, steps 1 to 4: extension, incremental, date, destination
EvaluateChecks(k) ==
  /\ Running
  /\ w[k].pc = "eval"
  /\ LET f == w[k].file
     IN IF f.ext \notin allowedExtensions
        THEN /\ Classified(k, "SkippedExtension", "", 0, FALSE, NoDest)
             /\ UNCHANGED dirs
        ELSE IF skipsIncremental(f)
        THEN /\ Classified(k, "SkippedIncremental", "", 0, FALSE, NoDest)
             /\ UNCHANGED dirs
        ELSE IF BestDate(f) = 0
        THEN /\ Classified(k, "SkippedDate", "", 0, FALSE, NoDest)
             /\ UNCHANGED dirs
        ELSE /\ dirs' = dirs \cup {MonthOf(BestDate(f))}
             /\ IF DstExists(DestPathOf(f))
                THEN Classified(k, "SkippedDestExists", "", 0, FALSE, DestPathOf(f))
                ELSE /\ w' = [w EXCEPT ![k].pc = "hash", ![k].dest = DestPathOf(f)]
                     /\ UNCHANGED hist
  /\ UNCHANGED <<faults, inputVars, mainVars, chanVars, indexVars, inodes, tmpLink, dstLink,
                 ledgerVars, ctxCancelled>>

\* hashSet[hash] read without the mutex: a read that overlaps the map write of
\* BatchInserter.Add in another goroutine is a data race and may return either value
LookupOutcomes(k, h) ==
  IF mapWriter # 0 /\ mapWriter # k THEN BOOLEAN ELSE {h \in hashSet}

\* evaluateFileForBackup, step 5: the source is opened and read to its end into
\* the hasher (io.Copy(h, f)), then the duplicate check
EvaluateHash(k) ==
  /\ Running
  /\ w[k].pc = "hash"
  /\ \/ /\ faults < FaultBudget
        /\ faults' = faults + 1
        /\ w' = [w EXCEPT ![k].pc = "result", ![k].state = "ErrorHash"]
        /\ hist' = [hist EXCEPT !.returned = @ \cup {w[k].file.path},
                                !.cut = IF ctxCancelled THEN @ \cup {w[k].file.path} ELSE @,
                                !.failed = @ \cup {w[k].file.path}]
     \/ \E found \in LookupOutcomes(k, Digest(w[k].file.content)) :
          /\ UNCHANGED faults
          /\ IF found
             THEN /\ Result(k, "DuplicateHash", "", 0, FALSE, w[k].dest)
                  /\ hist' = [Returned(hist, k) EXCEPT
                                !.reads = @ \cup {<<w[k].file.path, "eval">>}]
             ELSE /\ w' = [w EXCEPT ![k].pc = "gate"]
                  /\ hist' = [hist EXCEPT !.reads = @ \cup {<<w[k].file.path, "eval">>}]
  /\ UNCHANGED <<inputVars, mainVars, chanVars, indexVars, fsVars, ledgerVars, ctxCancelled>>

\* the runtime detects the concurrent map read and map write and aborts the process
MapRaceAbort(k) ==
  /\ Running
  /\ w[k].pc = "hash"
  /\ mapWriter # 0 /\ mapWriter # k
  /\ ProcessExit("crashed")
  /\ UNCHANGED <<faults, inputVars, unprocessedFiles, planningResults, execFiles, walkErrors, summary,
                 orderedResults, hashSet, records, dbRows, tmpLink, dstLink, dirs, ledgerVars, ctxCancelled, hist>>

\* classifyAndProcessFile: the decision is to copy; ctx.Err() is checked first
ClassifyGate(k) ==
  /\ Running
  /\ w[k].pc = "gate"
  /\ IF ctxCancelled
     THEN Classified(k, "ErrorCopy", "ctx", 0, FALSE, w[k].dest)
     ELSE /\ w' = [w EXCEPT ![k].pc = "open"]
          /\ UNCHANGED hist
  /\ UNCHANGED <<faults, inputVars, mainVars, chanVars, indexVars, fsVars, ledgerVars, ctxCancelled>>

\* one step of the copy made by worker k
WorkerCopy(k) ==
  /\ Running
  /\ CopyStep(k)
  /\ hist' = [hist EXCEPT
                !.failed = IF w'[k].retErr = "io" THEN @ \cup {w[k].file.path} ELSE @,
                !.reads = IF w[k].pc = "loop" /\ w'[k].retErr # "io"
                          THEN @ \cup {<<w[k].file.path, "copy">>} ELSE @]
  /\ UNCHANGED <<inputVars, mainVars, chanVars, indexVars, ledgerVars, ctxCancelled>>

\* a worker that gives up on the first copy error and returns without a result
ClassifyCopiedAborts(k) ==
  /\ Running
  /\ w[k].pc = "copied"
  /\ IF w[k].retErr # "nil"
     THEN w' = [w EXCEPT ![k] = [IdleWorker EXCEPT !.pc = "exited"]]
     ELSE w' = [w EXCEPT ![k].pc = "add", ![k].retErr = "", ![k].rd = 0]
  /\ UNCHANGED <<faults, inputVars, mainVars, chanVars, indexVars, fsVars, ledgerVars,
                 ctxCancelled, hist>>

\* classifyAndProcessFile after the copy returned: an error ends in ErrorCopy,
\* success goes on to batchInserter.Add
ClassifyCopied(k) ==
  /\ Running
  /\ w[k].pc = "copied"
  /\ IF w[k].retErr # "nil"
     THEN Classified(k, "ErrorCopy", w[k].retErr, 0, FALSE, w[k].dest)
     ELSE /\ w' = [w EXCEPT ![k].pc = "add", ![k].retErr = "", ![k].rd = 0]
          /\ UNCHANGED hist
  /\ UNCHANGED <<faults, inputVars, mainVars, chanVars, indexVars, fsVars, ledgerVars, ctxCancelled>>

\* ----------------------------------------------------------- the hash index

\* an insert that replaces the row that holds the hash
InsertOrReplace(rows, rec) ==
  {r \in rows : r.hash # rec.hash}
    \cup {[hash |-> rec.hash, dest |-> rec.dest, copiedAt |-> rec.copiedAt]}

\* INSERT OR IGNORE INTO files ... with hash TEXT UNIQUE
InsertOrIgnore(rows, rec) ==
  IF \E r \in rows : r.hash = rec.hash THEN rows
  ELSE rows \cup {[hash |-> rec.hash, dest |-> rec.dest, copiedAt |-> rec.copiedAt]}

RECURSIVE InsertAll(_, _)
InsertAll(rows, recs) ==
  IF recs = <<>> THEN rows
  ELSE InsertAll(InsertOrIgnore(rows, Head(recs)), Tail(recs))

FlushOutcomes == {"ok", "beginFail", "commitFail"}

\* a flush that commits the batch and keeps it
flushKeepsBatch(rows, recs, outcome) ==
  [rows |-> InsertAll(rows, recs), recs |-> recs, committed |-> recs, failed |-> FALSE]

\* flushUnsafe: nothing to do on an empty batch; a transaction that cannot begin
\* keeps the batch; after the commit, failed or not, the batch is cleared
\* (committed: the records of the transaction, if it was committed)
flushUnsafe(rows, recs, outcome) ==
  IF recs = <<>> THEN [rows |-> rows, recs |-> recs, committed |-> <<>>, failed |-> FALSE]
  ELSE IF outcome = "beginFail"
  THEN [rows |-> rows, recs |-> recs, committed |-> <<>>, failed |-> TRUE]
  ELSE IF outcome = "commitFail"
  THEN [rows |-> rows, recs |-> <<>>, committed |-> <<>>, failed |-> TRUE]
  ELSE [rows |-> InsertAll(rows, recs), recs |-> <<>>, committed |-> recs, failed |-> FALSE]

\* what a flush adds to the history of the index
Flushed(h, fl) == [h EXCEPT !.committed = @ \o fl.committed, !.dbFailed = @ \/ fl.failed]

\* BatchInserter.Add: bi.mutex.Lock() and the start of bi.hashSet[hash] = true
AddLock(k) ==
  /\ Running
  /\ w[k].pc = "add"
  /\ mutex = 0
  /\ mutex' = k
  /\ mapWriter' = k
  /\ w' = [w EXCEPT ![k].pc = "add2"]
  /\ UNCHANGED <<faults, inputVars, mainVars, chanVars, hashSet, records, dbRows, fsVars,
                 ledgerVars, ctxCancelled, hist>>

\* BatchInserter.Add: the map write completes, the record is appended, a full
\* batch is flushed, the mutex is released; the file is Copied
AddRecord(k) ==
  /\ Running
  /\ w[k].pc = "add2"
  /\ LET f == w[k].file
         rec == [src |-> f.path, dest |-> w[k].dest, hash |-> w[k].hash,
                 size |-> Len(f.content), mtime |-> f.mtime, copiedAt |-> Now]
         recs == Append(records, rec)
     IN /\ hashSet' = hashSet \cup {w[k].hash}
        /\ mapWriter' = 0
        /\ IF Len(recs) >= batchSize
           THEN \E o \in FlushOutcomes :
                  /\ records' = flushUnsafe(dbRows, recs, o).recs
                  /\ dbRows' = flushUnsafe(dbRows, recs, o).rows
                  /\ hist' = Flushed(Returned(hist, k), flushUnsafe(dbRows, recs, o))
           ELSE /\ records' = recs
                /\ hist' = Returned(hist, k)
                /\ UNCHANGED dbRows
        /\ mutex' = 0
        /\ Result(k, "Copied", "", Len(f.content), TRUE, w[k].dest)
  /\ UNCHANGED <<faults, inputVars, mainVars, chanVars, fsVars, ledgerVars, ctxCancelled>>

\* ------------------------------------------------- processSingleFile: the mark

\* a mark that does not look at the context
AlwaysMark == TRUE

\* the guard of the mark: resumeState != nil && ctx.Err() == nil
ShouldMark == ~ctxCancelled

\* the guard, then MarkFileProcessed: rs.ProcessedFiles[filePath] = true; the
\* map has no lock, the write goes on until the call moves on to os.Create
MarkFileProcessed(k) ==
  /\ Running
  /\ w[k].pc = "result"
  /\ IF ShouldMark
     THEN /\ ProcessedFiles' = ProcessedFiles \cup {w[k].file.path}
          /\ w' = [w EXCEPT ![k].pc = "mark"]
          /\ UNCHANGED hist
     ELSE /\ w' = [w EXCEPT ![k].pc = "send"]
          /\ hist' = Completed(hist, k)
          /\ UNCHANGED ProcessedFiles
  /\ UNCHANGED <<faults, inputVars, mainVars, chanVars, indexVars, fsVars, stateFile, resumeVars,
                 ctxCancelled>>

\* writeStateFile: os.Create(rs.StateFilePath) truncates the file, or fails and
\* the caller prints a warning
CreateStateFile(k) ==
  /\ Running
  /\ w[k].pc = "mark"
  /\ \/ /\ stateFile' = [exists |-> TRUE, paths |-> {}]
        /\ w' = [w EXCEPT ![k].pc = "write"]
        /\ UNCHANGED <<faults, hist>>
     \/ /\ faults < FaultBudget
        /\ faults' = faults + 1
        /\ w' = [w EXCEPT ![k].pc = "send"]
        /\ hist' = Completed(hist, k)
        /\ UNCHANGED stateFile
  /\ UNCHANGED <<inputVars, mainVars, chanVars, indexVars, fsVars, ProcessedFiles, resumeVars,
                 ctxCancelled>>

\* writeStateFile: the header and one line for each path in the map are written
\* and the file is closed; MarkFileProcessed returns nil
writeStateFile(k) ==
  /\ Running
  /\ w[k].pc = "write"
  /\ stateFile' = [exists |-> TRUE, paths |-> ProcessedFiles]
  /\ w' = [w EXCEPT ![k].pc = "send"]
  /\ hist' = Completed([hist EXCEPT !.marked = @ \cup {w[k].file.path}], k)
  /\ UNCHANGED <<faults, inputVars, mainVars, chanVars, indexVars, fsVars, ProcessedFiles, resumeVars,
                 ctxCancelled>>

\* worker k is inside MarkFileProcessed
InMark(k) == w[k].pc \in {"mark", "write"}

\* two goroutines are in the map at once, one of them writing: the runtime
\* detects the concurrent map access and aborts the process
LedgerRaceAbort(k) ==
  /\ Running
  /\ w[k].pc = "mark"
  /\ \E j \in Workers \ {k} : InMark(j)
  /\ ProcessExit("crashed")
  /\ UNCHANGED <<faults, inputVars, unprocessedFiles, planningResults, execFiles, walkErrors, summary,
                 orderedResults, hashSet, records, dbRows, tmpLink, dstLink, dirs, ledgerVars, ctxCancelled, hist>>

ResultOf(k) ==
  [path |-> w[k].file.path, dest |-> w[k].dest, state |-> w[k].state, err |-> w[k].err,
   bytes |-> w[k].bytes, dbIns |-> w[k].dbIns]

\* the worker's select: the result is sent when the channel has room
WorkerSend(k) ==
  /\ Running
  /\ w[k].pc = "send"
  /\ Len(results) < ChanCap
  /\ results' = Append(results, [index |-> w[k].idx, result |-> ResultOf(k)])
  /\ w' = [w EXCEPT ![k] = IdleWorker]
  /\ UNCHANGED <<faults, inputVars, mainVars, jobs, jobsClosed, nextJob, producerDone,
                 resultsClosed, orderedResults, indexVars, fsVars, ledgerVars,
                 ctxCancelled, hist>>

\* the worker's select: ctx.Done() is ready, the worker returns with its result
WorkerAbandon(k) ==
  /\ Running
  /\ w[k].pc = "send"
  /\ ctxCancelled
  /\ w' = [w EXCEPT ![k] = [IdleWorker EXCEPT !.pc = "exited"]]
  /\ UNCHANGED <<faults, inputVars, mainVars, chanVars, indexVars, fsVars, ledgerVars,
                 ctxCancelled, hist>>

\* go func() { wg.Wait(); close(results) }()
CloseResults ==
  /\ phase \in {"exec", "flush", "panic"}
  /\ PassStarted
  /\ ~resultsClosed
  /\ \A k \in 1..workers : w[k].pc = "exited"
  /\ resultsClosed' = TRUE
  /\ UNCHANGED <<faults, inputVars, mainVars, jobs, jobsClosed, nextJob, producerDone, results,
                 orderedResults, indexVars, fsVars, ledgerVars, ctxCancelled, w, hist>>

\* orderedResults[result.index] = result.result
PlaceResult(ord, r) == [ord EXCEPT ![r.index] = r.result]

\* the collector's select: a result is received
CollectResult ==
  /\ phase = "exec"
  /\ results # <<>>
  /\ orderedResults' = PlaceResult(orderedResults, Head(results))
  /\ results' = Tail(results)
  /\ UNCHANGED <<faults, inputVars, mainVars, jobs, jobsClosed, nextJob, producerDone,
                 resultsClosed, indexVars, fsVars, ledgerVars, ctxCancelled, w, hist>>

\* ------------------------------------------------------------ the accounting

SkippedStates == {"SkippedExtension", "SkippedIncremental", "SkippedDate", "SkippedDestExists"}

ErrorStates == {"ErrorStat", "ErrorDate", "ErrorHash", "ErrorCopy"}

\* a loop body whose switch has no case for StateErrorWalk
AccountWithoutWalk(acc, r) ==
  IF r.state = "Copied"
  THEN [acc EXCEPT !.Copied = @ + 1, !.CopiedFiles = Append(@, <<r.path, r.dest>>),
                   !.TotalBytes = @ + r.bytes]
  ELSE IF r.state = "DuplicateHash"
  THEN [acc EXCEPT !.Duplicates = @ + 1, !.DuplicateFiles = Append(@, <<r.path, r.dest>>)]
  ELSE IF r.state \in SkippedStates
  THEN [acc EXCEPT !.Skipped = @ + 1,
                   !.SkippedFiles = Append(@, [Path |-> r.path, Reason |-> r.state])]
  ELSE IF r.state \in ErrorStates
  THEN [acc EXCEPT !.Errors = @ + 1,
                   !.ErrorList = Append(@, <<r.path, IF r.err = "" THEN r.state ELSE r.err>>)]
  ELSE acc

\* the body of the loop over the results: one result is put in its category
Account(acc, r) ==
  IF r.state = "Copied"
  THEN [acc EXCEPT !.Copied = @ + 1, !.CopiedFiles = Append(@, <<r.path, r.dest>>),
                   !.TotalBytes = @ + r.bytes]
  ELSE IF r.state = "DuplicateHash"
  THEN [acc EXCEPT !.Duplicates = @ + 1, !.DuplicateFiles = Append(@, <<r.path, r.dest>>)]
  ELSE IF r.state \in SkippedStates
  THEN [acc EXCEPT !.Skipped = @ + 1,
                   !.SkippedFiles = Append(@, [Path |-> r.path, Reason |-> r.state])]
  ELSE IF r.state \in ErrorStates
  THEN [acc EXCEPT !.Errors = @ + 1,
                   !.ErrorList = Append(@, <<r.path, IF r.err = "" THEN r.state ELSE r.err>>)]
  ELSE IF r.state = "ErrorWalk"
  THEN [acc EXCEPT !.Errors = @ + 1]
  ELSE acc

RECURSIVE AccountAll(_, _)
AccountAll(acc, rs) ==
  IF rs = <<>> THEN acc ELSE AccountAll(Account(acc, Head(rs)), Tail(rs))

\* the walk errors are appended to the error list and added to Errors
AddWalkErrors(acc, n) ==
  [acc EXCEPT !.ErrorList = @ \o [i \in 1..n |-> <<0, "walk">>], !.Errors = @ + n]

\* GenerateAccountingSummary(results, walkErrors) for results without a nil entry
GenerateAccountingSummary(rs, n) ==
  AddWalkErrors(AccountAll([NoSummary EXCEPT !.TotalFiles = Len(rs), !.WalkErrors = n], rs), n)

\* result.FinalState of a nil entry is a nil pointer dereference
HasNil(rs) == \E i \in 1..Len(rs) : rs[i].state = "nil"

\* totalAccounted == totalFound, as printed after the summary
Reconciled(sm, totalFound) == sm.Copied + sm.Skipped + sm.Duplicates + sm.Errors = totalFound

\* AccountingSummary.Validate() returns nil
Validate(sm) == sm.Copied + sm.Skipped + sm.Duplicates + sm.Errors - sm.WalkErrors = sm.TotalFiles

\* resumeState.CleanupStateFile(): os.Remove of the state file
CleanupStateFile(sf) == NoStateFile

\* processFilesParallel returns its slice and backupWithResume goes on, without
\* waiting for anything, to the end of its body: the summary is generated from the
\* slice and the walk errors of the discovery (the run panics on an entry never
\* set), the totals are printed, the state file is cleaned up
Summarise ==
  IF HasNil(orderedResults)
  THEN /\ phase' = "panic"
       /\ hist' = [hist EXCEPT !.passReturned = TRUE]
       /\ UNCHANGED <<summary, stateFile>>
  ELSE /\ summary' = GenerateAccountingSummary(orderedResults, walkErrors)
       /\ stateFile' = CleanupStateFile(stateFile)
       /\ phase' = "flush"
       /\ hist' = [hist EXCEPT !.passReturned = TRUE, !.summarised = TRUE]

\* a collector that returns as soon as the channel is closed, leaving behind the
\* results still buffered in it
CollectClosedUndrained ==
  /\ phase = "exec"
  /\ resultsClosed
  /\ Summarise
  /\ UNCHANGED <<faults, inputVars, unprocessedFiles, planningResults, planProducer, execFiles, walkErrors,
                 chanVars, indexVars, fsVars, ProcessedFiles, resumeVars, ctxCancelled, w>>

\* the collector's select: the channel is closed and drained
CollectClosed ==
  /\ phase = "exec"
  /\ results = <<>> /\ resultsClosed
  /\ Summarise
  /\ UNCHANGED <<faults, inputVars, unprocessedFiles, planningResults, planProducer, execFiles, walkErrors,
                 chanVars, indexVars, fsVars, ProcessedFiles, resumeVars, ctxCancelled, w>>

\* the collector's select: ctx.Done() is ready, collection stops
CollectInterrupted ==
  /\ phase = "exec"
  /\ ctxCancelled
  /\ Summarise
  /\ UNCHANGED <<faults, inputVars, unprocessedFiles, planningResults, planProducer, execFiles, walkErrors,
                 chanVars, indexVars, fsVars, ProcessedFiles, resumeVars, ctxCancelled, w>>

\* the deferred flush of the batch inserter on every way out of backupWithResume;
\* main returns (or the panic goes on) and the process ends
DeferredFlush ==
  /\ phase \in {"flush", "panic"}
  /\ mutex = 0
  /\ \E o \in FlushOutcomes :
       /\ records' = flushUnsafe(dbRows, records, o).recs
       /\ dbRows' = flushUnsafe(dbRows, records, o).rows
       /\ hist' = Flushed(hist, flushUnsafe(dbRows, records, o))
  /\ ProcessExit(IF phase = "flush" THEN "returned" ELSE "panicked")
  /\ UNCHANGED <<faults, inputVars, unprocessedFiles, planningResults, execFiles, walkErrors,
                 summary, orderedResults, hashSet, tmpLink, dstLink, dirs, ledgerVars, ctxCancelled>>

\* the interrupt arrives while the run is in progress
Interrupt ==
  /\ Running
  /\ Cancel

Next ==
  \/ ResumeFilter
  \/ PlanningPass
  \/ PlanProducerReturn
  \/ SpaceCheck
  \/ ProduceJob
  \/ ProducerClose
  \/ \E k \in Workers : WorkerReceive(k)
  \/ \E k \in Workers : WorkerExit(k)
  \/ \E k \in Workers : CandidateError(k)
  \/ \E k \in Workers : EvaluateChecks(k)
  \/ \E k \in Workers : EvaluateHash(k)
  \/ \E k \in Workers : MapRaceAbort(k)
  \/ \E k \in Workers : ClassifyGate(k)
  \/ \E k \in Workers : WorkerCopy(k)
  \/ \E k \in Workers : ClassifyCopied(k)
  \/ \E k \in Workers : AddLock(k)
  \/ \E k \in Workers : AddRecord(k)
  \/ \E k \in Workers : MarkFileProcessed(k)
  \/ \E k \in Workers : CreateStateFile(k)
  \/ \E k \in Workers : LedgerRaceAbort(k)
  \/ \E k \in Workers : writeStateFile(k)
  \/ \E k \in Workers : WorkerSend(k)
  \/ \E k \in Workers : WorkerAbandon(k)
  \/ CloseResults
  \/ CollectResult
  \/ CollectClosed
  \/ CollectInterrupted
  \/ DeferredFlush
  \/ Interrupt

Spec == Init /\ [][Next]_vars

\* ------------------------------------------- direct callers of the hash index
\* Several goroutines call Add for the files of a list, one file per call, and
\* Flush at any time (TestHashCacheBatchOperations, the benchmarks, the workers
\* of a run larger than the batch size).

\* NewBatchInserter(db, hashSet, n): if batchSize <= 0 { batchSize = 1000 }
NewBatchInserter(n) == IF n <= 0 THEN DefaultBatchSize ELSE n

\* the files whose records are added: two with the same bytes, one with others
AddedKinds == {KindPhotoX, KindPhotoY, KindOld}

InitIndex ==
  /\ \E ks \in [1..MaxAdds -> AddedKinds] : files = [i \in 1..MaxAdds |-> SourceFile(i, ks[i])]
  /\ incremental = FALSE /\ minMtime = 0 /\ workers = MaxWorkers
  /\ availableSpace = 0 /\ resumed = FALSE /\ loadedLedger = {}
  /\ \E n \in 0..MaxBatch : batchSize = NewBatchInserter(n)
  /\ phase = "index" /\ ctxCancelled = FALSE
  /\ unprocessedFiles = <<>> /\ planningResults = <<>> /\ execFiles = <<>>
  /\ planProducer = "none"
  /\ jobs = <<>> /\ jobsClosed = FALSE /\ nextJob = 1 /\ producerDone = FALSE
  /\ results = <<>> /\ resultsClosed = FALSE /\ orderedResults = <<>>
  /\ w = [k \in Workers |-> IdleWorker]
  /\ dirs = Months
  /\ dbRows \in {{}, {PriorRow}}
  /\ hashSet = loadExistingHashes(dbRows) /\ mapWriter = 0 /\ records = <<>> /\ mutex = 0
  /\ inodes = [i \in InodeIds |-> NoInode]
  /\ tmpLink = [d \in DestPaths |-> 0]
  /\ dstLink = [d \in DestPaths |-> 0]
  /\ ProcessedFiles = {} /\ stateFile = NoStateFile
  /\ rsMeta = NoResume /\ stateText = <<>> /\ loadedState = NoResume
  /\ walkErrors = 0 /\ summary = NoSummary
  /\ faults = 0
  /\ hist = NoHist

\* a caller has copied the next file of the list and calls
\* batchInserter.Add(candidate.Path, candidate.DestPath, candidate.Hash, ...)
CallAdd(k) ==
  /\ phase = "index"
  /\ w[k].pc = "idle"
  /\ nextJob <= Len(files)
  /\ w' = [w EXCEPT ![k] = [IdleWorker EXCEPT !.pc = "add", !.idx = nextJob,
                                              !.file = files[nextJob],
                                              !.dest = DestPathOf(files[nextJob]),
                                              !.hash = Digest(files[nextJob].content)]]
  /\ nextJob' = nextJob + 1
  /\ UNCHANGED <<faults, inputVars, mainVars, jobs, jobsClosed, producerDone, results,
                 resultsClosed, orderedResults, indexVars, fsVars, ledgerVars,
                 ctxCancelled, hist>>

\* Add has returned to its caller
AddReturns(k) ==
  /\ phase = "index"
  /\ w[k].pc = "result"
  /\ w' = [w EXCEPT ![k] = IdleWorker]
  /\ UNCHANGED <<faults, inputVars, mainVars, chanVars, indexVars, fsVars, ledgerVars,
                 ctxCancelled, hist>>

\* Flush(): bi.mutex.Lock(); bi.flushUnsafe(); bi.mutex.Unlock()
Flush(k) ==
  /\ phase = "index"
  /\ w[k].pc = "idle"
  /\ mutex = 0
  /\ \E o \in FlushOutcomes :
       /\ records' = flushUnsafe(dbRows, records, o).recs
       /\ dbRows' = flushUnsafe(dbRows, records, o).rows
       /\ hist' = Flushed(hist, flushUnsafe(dbRows, records, o))
  /\ UNCHANGED <<faults, inputVars, mainVars, chanVars, hashSet, mapWriter, mutex, fsVars,
                 ledgerVars, ctxCancelled, w>>

NextIndex ==
  \/ \E k \in Workers : CallAdd(k)
  \/ \E k \in Workers : AddLock(k)
  \/ \E k \in Workers : AddRecord(k)
  \/ \E k \in Workers : AddReturns(k)
  \/ \E k \in Workers : Flush(k)

SpecIndex == InitIndex /\ [][NextIndex]_vars

\* ------------------------------------------- the summary of a given result list
\* GenerateAccountingSummary is called with a list of results of any final state
\* and any number of walk errors (TestAccountingSummaryPerfectAccounting).

\* the FileState enum
FileStates == {"Copied", "DuplicateHash", "ErrorWalk"} \cup SkippedStates \cup ErrorStates

InitSummary ==
  /\ files = <<>>
  /\ incremental = FALSE /\ minMtime = 0 /\ workers = 1
  /\ availableSpace = 0 /\ resumed = FALSE /\ loadedLedger = {}
  /\ batchSize = DefaultBatchSize
  /\ phase = "summary" /\ ctxCancelled = FALSE
  /\ unprocessedFiles = <<>> /\ planningResults = <<>> /\ execFiles = <<>>
  /\ planProducer = "none"
  /\ jobs = <<>> /\ jobsClosed = FALSE /\ nextJob = 1 /\ producerDone = FALSE
  /\ results = <<>> /\ resultsClosed = FALSE
  /\ \E n \in 0..MaxResults : \E sts \in [1..n -> FileStates] : \E es \in [1..n -> {"", "io"}] :
       /\ \A i \in 1..n : sts[i] \notin ErrorStates => es[i] = ""
       /\ orderedResults =
            [i \in 1..n |->
               [path |-> 100 + i,
                dest |-> IF sts[i] \in {"Copied", "DuplicateHash"} THEN PriorDest ELSE NoDest,
                state |-> sts[i], err |-> es[i],
                bytes |-> IF sts[i] = "Copied" THEN MaxLen ELSE 0,
                dbIns |-> sts[i] = "Copied"]]
  /\ w = [k \in Workers |-> [IdleWorker EXCEPT !.pc = "none"]]
  /\ dirs = Months
  /\ dbRows = {} /\ hashSet = {} /\ mapWriter = 0 /\ records = <<>> /\ mutex = 0
  /\ inodes = [i \in InodeIds |-> NoInode]
  /\ tmpLink = [d \in DestPaths |-> 0]
  /\ dstLink = [d \in DestPaths |-> 0]
  /\ ProcessedFiles = {} /\ stateFile = NoStateFile
  /\ rsMeta = NoResume /\ stateText = <<>> /\ loadedState = NoResume
  /\ walkErrors \in 0..MaxWalkErrors /\ summary = NoSummary
  /\ faults = 0
  /\ hist = NoHist

\* summary := GenerateAccountingSummary(results, walkErrors)
SummariseList ==
  /\ phase = "summary"
  /\ summary' = GenerateAccountingSummary(orderedResults, walkErrors)
  /\ phase' = "summarised"
  /\ UNCHANGED <<faults, inputVars, unprocessedFiles, planningResults, planProducer, execFiles,
                 walkErrors, chanVars, indexVars, fsVars, ledgerVars, ctxCancelled, w, hist>>

SpecSummary == InitSummary /\ [][SummariseList]_vars

\* ------------------------------------------------- the state file as a text
\* A ResumeState is written by writeStateFile and read back by LoadResumeState.
\* A string is a sequence of characters; the words of the header format
\* ("START_TIME:", "SRC:", "DEST:", "INCREMENTAL:"), the formatted start time
\* ("t") and "true"/"false" are one character each, none of them a space.

\* fmt.Sscanf(line, "START_TIME:%s SRC:%s DEST:%s INCREMENTAL:%s", ...): the
\* values scanned before the input stops matching the format. %s skips the
\* spaces before it and takes the characters up to the next space; a space in
\* the format matches any number of spaces; any other character must match.
Sscanf(line) ==
  LET RECURSIVE SkipSpace(_), Token(_), Scan(_, _, _)
      SkipSpace(s) == IF s # <<>> /\ Head(s) = " " THEN SkipSpace(Tail(s)) ELSE s
      Token(s) == IF s = <<>> \/ Head(s) = " " THEN <<>> ELSE <<Head(s)>> \o Token(Tail(s))
      Scan(in, fmt, vals) ==
        IF fmt = <<>> THEN vals
        ELSE IF Head(fmt) = "%s"
        THEN LET s == SkipSpace(in)
                 t == Token(s)
             IN IF t = <<>> THEN vals
                ELSE Scan(SubSeq(s, Len(t) + 1, Len(s)), Tail(fmt), Append(vals, t))
        ELSE IF Head(fmt) = " "
        THEN Scan(SkipSpace(in), Tail(fmt), vals)
        ELSE IF in # <<>> /\ Head(in) = Head(fmt)
        THEN Scan(Tail(in), Tail(fmt), vals)
        ELSE vals
  IN Scan(line, <<"START_TIME:", "%s", " ", "SRC:", "%s", " ", "DEST:", "%s", " ",
                  "INCREMENTAL:", "%s">>, <<>>)

\* LoadResumeState(stateFilePath) on a file with the given lines: the header is
\* scanned (an error unless four values are found and the first is a time), every
\* later line that is not empty is a processed path
LoadResumeState(text) ==
  IF text = <<>> THEN NoResume
  ELSE LET vals == Sscanf(text[1])
       IN IF Len(vals) # 4 \/ vals[1] # <<"t">>
          THEN [NoResume EXCEPT !.err = TRUE]
          ELSE [err |-> FALSE, SourceDir |-> vals[2], DestDir |-> vals[3],
                Incremental |-> (vals[4] = <<"true">>),
                ProcessedFiles |-> {text[i] : i \in 2..Len(text)} \ {<<>>}]

\* a ResumeState in memory: directory names and paths of letters and spaces
InitLedger ==
  LET Names == UNION {[1..n -> {"a", " "}] : n \in 1..MaxName}
  IN /\ files = <<>>
     /\ incremental = FALSE /\ minMtime = 0 /\ workers = 1
     /\ availableSpace = 0 /\ resumed = FALSE /\ loadedLedger = {}
     /\ batchSize = DefaultBatchSize
     /\ phase = "ledger" /\ ctxCancelled = FALSE
     /\ unprocessedFiles = <<>> /\ planningResults = <<>> /\ execFiles = <<>>
     /\ planProducer = "none"
     /\ jobs = <<>> /\ jobsClosed = FALSE /\ nextJob = 1 /\ producerDone = FALSE
     /\ results = <<>> /\ resultsClosed = FALSE /\ orderedResults = <<>>
     /\ w = [k \in Workers |-> [IdleWorker EXCEPT !.pc = "none"]]
     /\ dirs = Months
     /\ dbRows = {} /\ hashSet = {} /\ mapWriter = 0 /\ records = <<>> /\ mutex = 0
     /\ inodes = [i \in InodeIds |-> NoInode]
     /\ tmpLink = [d \in DestPaths |-> 0]
     /\ dstLink = [d \in DestPaths |-> 0]
     /\ \E src \in Names : \E dst \in Names : \E inc \in BOOLEAN :
          rsMeta = [NoResume EXCEPT !.SourceDir = src, !.DestDir = dst, !.Incremental = inc]
     /\ ProcessedFiles \in SUBSET {p \in Names : Len(p) <= 2 /\ Head(p) = "a"}
     /\ stateFile = NoStateFile /\ stateText = <<>> /\ loadedState = NoResume
     /\ walkErrors = 0 /\ summary = NoSummary
     /\ faults = 0
     /\ hist = NoHist

\* rs.writeStateFile(): os.Create, the header line, then one line for each key
\* of the map, in the order the iteration over the map happens to take
WriteState ==
  /\ phase = "ledger"
  /\ \E lines \in [1..Cardinality(ProcessedFiles) -> ProcessedFiles] :
       /\ \A i, j \in DOMAIN lines : i # j => lines[i] # lines[j]
       /\ stateText' =
            <<<<"START_TIME:", "t", " ", "SRC:">> \o rsMeta.SourceDir
                \o <<" ", "DEST:">> \o rsMeta.DestDir
                \o <<" ", "INCREMENTAL:", IF rsMeta.Incremental THEN "true" ELSE "false">>>>
              \o lines
  /\ stateFile' = [exists |-> TRUE, paths |-> ProcessedFiles]
  /\ phase' = "written"
  /\ UNCHANGED <<faults, inputVars, unprocessedFiles, planningResults, planProducer, execFiles,
                 walkErrors, summary, chanVars, indexVars, fsVars, ProcessedFiles, rsMeta,
                 loadedState, ctxCancelled, w, hist>>

\* a later run calls LoadResumeState on the state file
LoadState ==
  /\ phase = "written"
  /\ loadedState' = LoadResumeState(stateText)
  /\ phase' = "loaded"
  /\ UNCHANGED <<faults, inputVars, unprocessedFiles, planningResults, planProducer, execFiles,
                 walkErrors, summary, chanVars, indexVars, fsVars, ProcessedFiles, stateFile,
                 rsMeta, stateText, ctxCancelled, w, hist>>

SpecLedger == InitLedger /\ [][WriteState \/ LoadState]_vars

\* ------------------------------------ a pass as a function of what it starts from
\* One worker, no I/O failure and no interrupt: the files are processed one after
\* the other in list order and each file has one possible result.

\* the resume filter over a given ledger
Unmarked(fs, ledger) == SelectSeq(fs, LAMBDA f : f.path \notin ledger)

\* a pass that starts on an empty hash map, whatever the index holds
PassWithoutIndex(fs, inc, mm, occupied, known) ==
  [i \in 1..Len(fs) |->
     [path |-> fs[i].path, state |-> evaluateFileForBackup(fs[i], inc, mm, occupied, {})]]

\* processFilesParallel with one worker: a copy puts the file at its destination
\* path and BatchInserter.Add puts its hash in the map before the next file
RECURSIVE PassResults(_, _, _, _, _)
PassResults(fs, inc, mm, occupied, known) ==
  IF fs = <<>> THEN <<>>
  ELSE LET f == Head(fs)
           st == evaluateFileForBackup(f, inc, mm, occupied, known)
           copied == st = "Copied"
       IN <<[path |-> f.path, state |-> st]>> \o
          PassResults(Tail(fs), inc, mm,
                      IF copied THEN occupied \cup {DestPathOf(f)} ELSE occupied,
                      IF copied THEN known \cup {Digest(f.content)} ELSE known)

\* ------------------------------------------------- properties of one copy call

\* the destination path and the source of the call under SpecCopy
CallDest == w[1].dest

CallSource == w[1].file

CallReturned == phase = "unit" /\ w[1].pc = "copied"

\* C4: during one call of copyFileWithHashAndTimestamps whose dst was absent
\* beforehand, dst is at every moment either absent or a closed, synced file
\* holding all the bytes of the source and the source's modification time.
C4_DstAbsentOrComplete ==
  phase = "unit" /\ DstExists(CallDest) =>
    /\ inodes[dstLink[CallDest]].content = CallSource.content
    /\ inodes[dstLink[CallDest]].mtime = CallSource.mtime
    /\ inodes[dstLink[CallDest]].synced
    /\ ~(w[1].fdOpen /\ w[1].fd = dstLink[CallDest])

\* a call that copied a source of the largest size to the end
C4_Witness ==
  /\ CallReturned /\ w[1].retErr = "nil"
  /\ DstExists(CallDest)
  /\ Len(CallSource.content) = MaxLen

\* C5: when the copy returns the cancellation error, at whatever point the
\* context was cancelled, neither dst nor dst+".tmp" exists on return (dst and
\* the temp path held no file before the call).
C5_CancelledLeavesNothing ==
  CallReturned /\ w[1].retErr = "ctx" => ~DstExists(CallDest) /\ ~TmpExists(CallDest)

\* a call cancelled in the middle of the copy loop, after bytes were written
C5_Witness ==
  /\ CallReturned /\ w[1].retErr = "ctx"
  /\ w[1].rd > 0 /\ w[1].rd < Len(CallSource.content)

\* C6: whenever the copy returns a non-nil error, for any reason, dst+".tmp"
\* does not exist on return.
C6_NoTmpAfterError ==
  CallReturned /\ w[1].retErr \in {"io", "ctx"} => ~TmpExists(CallDest)

\* --------------------------------------------------------- properties of a run

\* the results the collector has stored
Stored == {i \in 1..Len(orderedResults) : orderedResults[i].state # "nil"}

SumOfCounts(sm) == sm.Copied + sm.Skipped + sm.Duplicates + sm.Errors

\* C1: for every result list and every list of walk errors the summary has
\* Copied + Skipped + Duplicates + Errors = TotalFiles, so the reconciliation
\* totalAccounted == totalFound of backupWithResume succeeds on every run that
\* completes uncancelled, walk errors or not.
C1_EveryFileAccounted ==
  hist.summarised /\ ~ctxCancelled =>
    /\ SumOfCounts(summary) = summary.TotalFiles
    /\ Reconciled(summary, Len(execFiles))

\* C2: within one execution pass, of the files with the same content hash that
\* pass the extension, incremental, date and destination checks, at most one
\* ends Copied.
C2_OneCopyPerHash ==
  \A i, j \in Stored :
    /\ i # j
    /\ orderedResults[i].state = "Copied"
    /\ orderedResults[j].state = "Copied"
    => Digest(execFiles[i].content) # Digest(execFiles[j].content)

\* the rows the durable index held when the run started
RowsAtStart == {r \in dbRows : r.copiedAt < Now}

\* C3: a file whose content hash is in the durable index when the run starts
\* never ends Copied, whatever the number of workers and the mode.
C3_IndexedNeverCopied ==
  \A i \in Stored :
    orderedResults[i].state = "Copied"
    => Digest(execFiles[i].content) \notin loadExistingHashes(RowsAtStart)

\* C7: when the context is never cancelled, processFilesParallel returns a slice
\* as long as its input in which every entry i is set and is the result of
\* processing files[i], for any number of workers and any completion order.
C7_OrderedComplete ==
  hist.passReturned /\ ~ctxCancelled =>
    /\ Len(orderedResults) = Len(execFiles)
    /\ \A i \in 1..Len(execFiles) :
         /\ orderedResults[i].state # "nil"
         /\ orderedResults[i].path = execFiles[i].path

\* a pass of all the workers over a full discovery that returned uncancelled
C7_Witness ==
  /\ hist.passReturned /\ ~ctxCancelled
  /\ workers = MaxWorkers
  /\ Len(execFiles) = NumFiles
  /\ Stored = 1..NumFiles

\* C8: the ledger, in memory and on disk, gains only paths whose
\* classifyAndProcessFile has returned, and never a path whose result was
\* produced while the context was cancelled.
C8_LedgerOnlyReturned ==
  /\ (ProcessedFiles \ loadedLedger) \subseteq hist.returned
  /\ (stateFile.paths \ loadedLedger) \subseteq hist.returned
  /\ ProcessedFiles \cap hist.cut = {}
  /\ stateFile.paths \cap hist.cut = {}

\* one file is marked and written to the state file, another was cut short
C8_Witness ==
  /\ hist.cut # {}
  /\ stateFile.exists
  /\ (stateFile.paths \ loadedLedger) # {}

\* C9: the state file is removed only when the run completes without
\* cancellation: after a cancellation during the execution pass with at least
\* one file marked, the state file is on disk when backupWithResume returns.
C9_StateFileKept ==
  phase = "returned" /\ hist.cancelledInExec /\ hist.markedAtCancel => stateFile.exists

\* C10: the files handed to planning and to execution are the discovered files
\* that the loaded ledger does not mark, in discovery order: with N of the M
\* discovered files marked, exactly M - N are scheduled.
C10_ResumeFilterExact ==
  LET marked == loadedLedger \cap PathsOf(files)
  IN /\ phase \in {"plan", "space", "exec"} \/ hist.passReturned =>
          /\ PathsOf(unprocessedFiles) = PathsOf(files) \ loadedLedger
          /\ Len(unprocessedFiles) = Len(files) - Cardinality(marked)
     /\ phase \in {"space", "exec"} \/ hist.passReturned =>
          Len(planningResults) = Len(files) - Cardinality(marked)
     /\ phase = "exec" \/ hist.passReturned =>
          /\ execFiles = unprocessedFiles
          /\ Len(orderedResults) = Len(files) - Cardinality(marked)
          /\ nextJob <= Len(files) - Cardinality(marked) + 1

\* a resumed run with one file marked and one left, which it has processed
C10_Witness ==
  /\ resumed
  /\ Cardinality(loadedLedger) = 1
  /\ NumFiles > 1
  /\ hist.passReturned
  /\ Stored # {}

\* the entries of a result slice that are set, as path and state
SliceResults(rs) ==
  {[path |-> rs[i].path, state |-> rs[i].state] : i \in {j \in 1..Len(rs) : rs[j].state # "nil"}}

SeqResults(rs) == {rs[i] : i \in 1..Len(rs)}

\* the Copied and DuplicateHash results
Kept(rset) == {r \in rset : r.state \in {"Copied", "DuplicateHash"}}

\* the destination paths that held a file when the run started
DestAtStart == {d \in DestPaths : dstLink[d] = OldInode}

\* the run started again on the state file, the index and the destination the
\* interrupted run left, to completion
ResumedRun ==
  SeqResults(PassResults(Unmarked(files, stateFile.paths), incremental,
                         Watermark(incremental, dbRows),
                         {d \in DestPaths : DstExists(d)}, loadExistingHashes(dbRows)))

\* one uninterrupted run over the same files, starting index and destination
UninterruptedRun ==
  SeqResults(PassResults(files, incremental, Watermark(incremental, RowsAtStart),
                         DestAtStart, loadExistingHashes(RowsAtStart)))

\* C11: for a run cancelled during the execution pass and then resumed from its
\* ledger to completion, the Copied and DuplicateHash results of the two runs
\* together are the Copied and DuplicateHash results of one uninterrupted run
\* over the same source files and the same starting index (one worker, no I/O
\* failure, a first run that did not itself resume).
C11_ResumeEquivalent ==
  /\ phase \in {"returned", "panicked"}
  /\ hist.cancelledInExec /\ stateFile.exists
  /\ ~resumed /\ workers = 1 /\ faults = 0
  => Kept(SliceResults(orderedResults)) \cup Kept(ResumedRun) = Kept(UninterruptedRun)

\* C12: concurrent MarkFileProcessed calls are serialized inside the ledger: no
\* two workers are inside the call (updating the map or rewriting the state file)
\* at the same time, and once no call is in progress the map and the state file
\* hold every path whose mark returned without error.
C12_MarksSerialized ==
  /\ \A j, k \in Workers : j # k => ~(InMark(j) /\ InMark(k))
  /\ phase = "exec" /\ (\A k \in Workers : ~InMark(k)) =>
       /\ hist.marked \subseteq ProcessedFiles
       /\ hist.marked \subseteq stateFile.paths

\* C13: once MarkFileProcessed(p) has returned without error, the state file on
\* disk lists p at every later point at which the run may crash, a later
\* MarkFileProcessed call in progress included.
C13_MarkDurable ==
  phase = "exec" => hist.marked \subseteq stateFile.paths

\* C14: on cancellation of the execution pass, every file whose processing a
\* worker completed before the collector returned has its result at its index
\* in the returned slice.
C14_CompletedResultsDrained ==
  hist.passReturned /\ ctxCancelled =>
    \A i \in 1..Len(execFiles) :
      execFiles[i].path \in hist.done => orderedResults[i].state # "nil"

\* C15: when the execution pass was cancelled and the result slice has unset
\* entries, GenerateAccountingSummary skips them: the run does not fail, and
\* the summary counts the set entries only, the unset ones neither as errors
\* nor as files.
C15_NilEntriesSkipped ==
  hist.passReturned /\ ctxCancelled /\ HasNil(orderedResults) =>
    /\ phase \notin {"panic", "panicked"}
    /\ hist.summarised
    /\ summary.TotalFiles = Cardinality(Stored)
    /\ SumOfCounts(summary) = Cardinality(Stored) + walkErrors

\* C16: a file whose copy is prevented or cut short by cancellation is not
\* reported with a file-level error: no entry of the slice returned by
\* processFilesParallel is ErrorCopy with the cancellation error as its cause.
C16_CancellationNotFileError ==
  hist.passReturned =>
    \A i \in Stored :
      ~(orderedResults[i].state = "ErrorCopy" /\ orderedResults[i].err = "ctx")

\* C17: a stat, hash or copy failure on one file yields an Error* result for
\* that file only: in a pass that is not cancelled every file of the input,
\* the failed one and every other, has its own result at its index, the pass
\* returns normally, and the Error* results are those of the files on which an
\* operation failed.
C17_FailureIsPerFile ==
  hist.passReturned /\ ~ctxCancelled /\ hist.failed # {} =>
    /\ phase \notin {"panic", "panicked"}
    /\ \A i \in 1..Len(execFiles) :
         /\ orderedResults[i].state # "nil"
         /\ orderedResults[i].path = execFiles[i].path
         /\ orderedResults[i].state \in ErrorStates <=> execFiles[i].path \in hist.failed

\* the first file of the list failed and the file after it was copied
C17_Witness ==
  /\ hist.passReturned /\ ~ctxCancelled
  /\ Len(execFiles) = NumFiles
  /\ execFiles[1].path \in hist.failed
  /\ orderedResults[1].state \in ErrorStates
  /\ orderedResults[NumFiles].state = "Copied"

\* the run has got past the space check with less free space than the planning
\* estimate plus the buffer
Insufficient ==
  /\ phase \notin {"unit", "filter", "plan", "space"}
  /\ availableSpace < EstimatedTotalSize(planningResults) + SpaceBuffer

\* nothing has been written: the destination, the index and the ledger are as
\* the run found them
Untouched ==
  /\ \A d \in DestPaths : tmpLink[d] = 0 /\ dstLink[d] \in {0, OldInode}
  /\ \A i \in InodeIds \ {OldInode} : inodes[i] = NoInode
  /\ dirs = {d[1] : d \in DestAtStart}
  /\ hashSet = loadExistingHashes(dbRows) /\ dbRows = RowsAtStart /\ records = <<>>
  /\ ProcessedFiles = loadedLedger
  /\ stateFile = [exists |-> resumed, paths |-> loadedLedger]

\* C18: if the free space is below the planning estimate plus the 100 MB
\* buffer, the run returns before the execution pass starts, and up to that
\* point (through the filter, the planning pass and the space check) no
\* destination file or directory has been created, no hash added to the index
\* and no ledger entry written.
C18_NothingTouchedBeforeExec ==
  /\ phase \in {"filter", "plan", "space"} => Untouched
  /\ Insufficient =>
       /\ Untouched
       /\ phase \in {"flush", "returned"}
       /\ ~hist.passReturned /\ orderedResults = <<>>
       /\ \A k \in Workers : w[k].pc = "none"

\* a run that returned for lack of space although planning found a file to copy
C18_Witness ==
  /\ phase = "returned" /\ Insufficient
  /\ \E i \in 1..Len(planningResults) : planningResults[i].ShouldCopy

\* C19: both passes run with at least one worker for every caller-supplied
\* worker count, 0 and negative values included: the planning pass evaluates
\* every file, and neither pass fails on a non-positive count.
C19_WorkerCountClamped ==
  /\ phase = "space" =>
       /\ Len(planningResults) = Len(unprocessedFiles)
       /\ \A i \in 1..Len(unprocessedFiles) :
            planningResults[i] = evaluateFileForPlanning(unprocessedFiles[i])
  /\ phase = "exec" => workers >= 1
  /\ phase \in {"panic", "panicked"} => hist.passReturned

\* the first matching outcome of the checks made without reading the file, in
\* their fixed order; "hash" when none of the four matches
FirstMatch(f) ==
  LET matches == << f.ext \notin allowedExtensions,
                    incremental /\ minMtime > 0 /\ f.mtime <= minMtime,
                    f.date = 0 /\ f.mtime = 0,
                    DstExists(<<MonthOf(IF f.date # 0 THEN f.date ELSE f.mtime), f.base>>) >>
      outcomes == <<"SkippedExtension", "SkippedIncremental", "SkippedDate", "SkippedDestExists">>
      hits == {n \in 1..4 : matches[n]}
  IN IF hits = {} THEN "hash"
     ELSE outcomes[CHOOSE n \in hits : \A m \in hits : n <= m]

SecondRun ==
  PassResults(files, FALSE, 0, {d \in DestPaths : DstExists(d)}, loadExistingHashes(dbRows))

C24_DuplicateNamesOwner ==
  hist.summarised =>
    \A n \in 1..Len(summary.DuplicateFiles) :
      \A i \in 1..Len(files) :
        files[i].path = summary.DuplicateFiles[n][1] =>
          \/ \E r \in dbRows :
               r.hash = Digest(files[i].content) /\ r.dest = summary.DuplicateFiles[n][2]
          \/ \E j \in 1..Len(records) :
               /\ records[j].hash = Digest(files[i].content)
               /\ records[j].dest = summary.DuplicateFiles[n][2]

\* C25: for every source content, the empty file included, and every way the
\* reads split it into chunks, the hash copyFileWithHashAndTimestamps returns
\* is the hash getFileHash computes from a separate full read of the source,
\* and the bytes at the destination are the bytes of the source.
C25_StreamedHashIsFileHash ==
  CallReturned /\ w[1].retErr = "nil" =>
    /\ w[1].hash = getFileHash(CallSource)
    /\ DstExists(CallDest)
    /\ inodes[dstLink[CallDest]].content = CallSource.content

\* a source of the largest size with two different bytes has been copied
C25_Witness ==
  /\ CallReturned /\ w[1].retErr = "nil"
  /\ Len(CallSource.content) = MaxLen /\ MaxLen > 1
  /\ CallSource.content[1] # CallSource.content[MaxLen]
  /\ w[1].hash = Digest(CallSource.content)

\* C27: every read and every write of the in-memory hash map during the
\* execution pass happens while the index's mutex is held: the duplicate check
\* of a worker holds the mutex, so it never reads the map while the Add of
\* another worker is writing it.
C27_MapAccessLocked ==
  [][\A k \in Workers :
       /\ w[k].pc = "hash" /\ w'[k].pc \in {"gate", "result"} /\ w'[k].state # "ErrorHash" =>
            mutex = k /\ mapWriter \in {0, k}
       /\ hashSet' # hashSet /\ w[k].pc = "add2" /\ w'[k].pc # "add2" => mutex = k]_vars

C28_BufferBelowBatchSize ==
  phase = "index" /\ mutex = 0 => Len(records) < batchSize

\* C29: with Add and Flush called in any interleaving from several workers and
\* a database that accepts every transaction, no record is lost and none is
\* committed twice: every record passed to Add is, once Add has returned,
\* either in the buffer or part of exactly one committed transaction, and the
\* buffer and the transactions hold nothing else.
C29_NoRecordLostOrTwice ==
  phase = "index" /\ ~hist.dbFailed =>
    \A i \in 1..Len(files) :
      LET Occurrences(recs, p) == Cardinality({j \in 1..Len(recs) : recs[j].src = p})
          inAdd == \E k \in Workers : w[k].idx = i /\ w[k].pc \in {"add", "add2"}
          n == Occurrences(records, files[i].path) + Occurrences(hist.committed, files[i].path)
      IN n = (IF i < nextJob /\ ~inAdd THEN 1 ELSE 0)

\* one record has been committed, another is in the buffer, and a third Add is
\* writing the map
C29_Witness ==
  /\ phase = "index" /\ ~hist.dbFailed
  /\ hist.committed # <<>> /\ records # <<>>
  /\ \E k \in Workers : w[k].pc = "add2"

C26_PassesReturn ==
  LET PassStep ==
        \/ ProduceJob
        \/ ProducerClose
        \/ \E k \in Workers :
             \/ WorkerReceive(k) \/ WorkerExit(k) \/ CandidateError(k) \/ EvaluateChecks(k)
             \/ EvaluateHash(k) \/ ClassifyGate(k) \/ WorkerCopy(k) \/ ClassifyCopied(k)
             \/ AddLock(k) \/ AddRecord(k) \/ MarkFileProcessed(k) \/ CreateStateFile(k)
             \/ writeStateFile(k) \/ WorkerSend(k) \/ WorkerAbandon(k)
        \/ CloseResults
        \/ CollectResult
        \/ CollectClosed
        \/ CollectInterrupted
      GoroutinesDone ==
        /\ producerDone /\ jobsClosed /\ resultsClosed
        /\ \A k \in 1..workers : w[k].pc = "exited"
  IN /\ phase = "crashed" => hist.passReturned
     /\ phase = "exec" => ENABLED PassStep
     /\ phase \in {"flush", "panic"} /\ PassStarted /\ ~GoroutinesDone => ENABLED PassStep
     /\ phase = "flush" /\ PassStarted /\ ~ctxCancelled => GoroutinesDone
     /\ planProducer = "blocked" => ctxCancelled

\* C31: in the summary of any list of results, of every FileState, each result
\* increments exactly one of the four counters and appends exactly one entry to
\* the list of that counter, and each walk error adds one to Errors and one
\* entry to ErrorList; hence every list is as long as its counter says.
C31_OneCounterOneEntry ==
  phase = "summarised" =>
    /\ \A i \in 1..Len(orderedResults) :
         LET a == Account(NoSummary, orderedResults[i])
         IN /\ a.Copied + a.Duplicates + a.Skipped + a.Errors = 1
            /\ Len(a.CopiedFiles) = a.Copied /\ Len(a.DuplicateFiles) = a.Duplicates
            /\ Len(a.SkippedFiles) = a.Skipped /\ Len(a.ErrorList) = a.Errors
    /\ Len(summary.CopiedFiles) = summary.Copied
    /\ Len(summary.DuplicateFiles) = summary.Duplicates
    /\ Len(summary.SkippedFiles) = summary.Skipped
    /\ Len(summary.ErrorList) = summary.Errors

\* C32: AccountingSummary.Validate returns no error on the summary that
\* GenerateAccountingSummary produces, for every list of results whose states
\* are in the FileState enum and every number of walk errors.
C32_SummaryValidates ==
  phase = "summarised" => Validate(summary)

\* a summary of two results of different categories, one of them a result in
\* the state ErrorWalk, next to a walk error
C32_Witness ==
  /\ phase = "summarised"
  /\ walkErrors > 0
  /\ Len(orderedResults) = 2
  /\ orderedResults[1].state = "ErrorWalk"
  /\ orderedResults[2].state = "Copied"
  /\ summary.Errors = 1 + walkErrors /\ summary.Copied = 1

\* C33: for every result of classifyAndProcessFile: a decision not to copy
\* returns straight from the evaluation with the decision's state, no bytes
\* copied, DBInserted false and no record added to the index; a decision to
\* copy ends in Copied (DBInserted true, the size of the file as BytesCopied,
\* the record added to the batch and its hash to the map, the destination file
\* in place) or in ErrorCopy (no bytes copied, DBInserted false, nothing added).
C33_ResultMatchesDecision ==
  /\ [](phase \in {"exec", "flush", "panic"} =>
          LET Held == {ResultOf(k) : k \in {j \in Workers : w[j].pc \in {"result", "mark",
                                                                          "write", "send"}}}
              Sent == {results[i].result : i \in 1..Len(results)}
              Placed == {orderedResults[i] : i \in 1..Len(orderedResults)}
              Added(r) == {j \in 1..Len(records) : records[j].src = r.path}
                            \cup {j \in 1..Len(hist.committed) : hist.committed[j].src = r.path}
          IN \A r \in {x \in Held \cup Sent \cup Placed : x.state \notin {"nil", "ErrorStat"}} :
               IF r.state = "Copied"
               THEN /\ r.dbIns /\ r.err = ""
                    /\ \E f \in {files[i] : i \in 1..Len(files)} :
                         /\ f.path = r.path /\ r.bytes = Len(f.content)
                         /\ Digest(f.content) \in hashSet
                         /\ \E j \in 1..Len(records) :
                              /\ records[j].src = r.path /\ records[j].dest = r.dest
                              /\ records[j].hash = Digest(f.content)
                    /\ Cardinality(Added(r)) = 1
                    /\ DstExists(r.dest)
               ELSE /\ r.bytes = 0 /\ ~r.dbIns /\ Added(r) = {}
                    /\ r.state = "ErrorCopy" => r.err # "")
  /\ [][\A k \in Workers :
          Running /\ w[k].pc # "result" /\ w'[k].pc = "result" =>
            (w[k].pc \in {"eval", "hash"} <=> w'[k].state \notin {"Copied", "ErrorCopy"})]_vars

\* the collector holds a Copied result and the result of a file that was not to
\* be copied
C33_Witness ==
  /\ phase = "exec"
  /\ \E i \in 1..Len(orderedResults) : orderedResults[i].state = "Copied"
  /\ \E i \in 1..Len(orderedResults) :
       orderedResults[i].state \in SkippedStates \cup {"DuplicateHash"}

\* C34: in the execution pass the content of a file that ends in Copied is read
\* from the source exactly once, by the copy loop that writes the temp file and
\* feeds the hasher; the evaluation before the copy does not read it.
C34_SourceReadOnce ==
  \A r \in {ResultOf(k) : k \in {j \in Workers : w[j].pc = "result"}}
             \cup {orderedResults[i] : i \in 1..Len(orderedResults)} :
    r.state = "Copied" =>
      {x \in hist.reads : x[1] = r.path} = {<<r.path, "copy">>}

\* C35: when two workers process two source files that map to the same
\* destination path, they never have the same temp file open for writing at the
\* same time, at most one of the two files ends in Copied, and the destination
\* path never shows bytes other than the complete content of one of the two
\* sources.
C35_SameDestinationSerialized ==
  LET Clash == {p \in (1..Len(files)) \X (1..Len(files)) :
                  /\ p[1] < p[2]
                  /\ files[p[1]].ext \in allowedExtensions
                  /\ files[p[2]].ext \in allowedExtensions
                  /\ DestPathOf(files[p[1]]) = DestPathOf(files[p[2]])}
  IN \A p \in Clash :
       LET d == DestPathOf(files[p[1]])
       IN /\ \A k, j \in Workers :
               k # j /\ w[k].fdOpen /\ w[j].fdOpen /\ w[k].dest = d /\ w[j].dest = d
                 => w[k].fd # w[j].fd
          /\ Len(orderedResults) = Len(files) =>
               ~(orderedResults[p[1]].state = "Copied" /\ orderedResults[p[2]].state = "Copied")
          /\ dstLink[d] \notin {0, OldInode} =>
               inodes[dstLink[d]].content \in {files[p[1]].content, files[p[2]].content}

\* C36: a record leaves the batch buffer only in a step that commits the
\* transaction containing it: a flush whose transaction cannot begin, cannot be
\* prepared or fails to commit leaves every record in the buffer.
C36_RemovedOnlyWhenCommitted ==
  [][phase = "index" =>
       \A j \in 1..Len(records) :
         \/ \E i \in 1..Len(records') : records'[i] = records[j]
         \/ \E i \in (Len(hist.committed) + 1)..Len(hist'.committed) :
              hist'.committed[i] = records[j]]_vars

\* C37: loading the state file that writeStateFile wrote yields the source
\* directory, the destination directory, the incremental flag and the set of
\* processed paths of the state that was written, for all directory names and
\* paths, those that contain spaces included.
C37_LedgerRoundTrip ==
  phase = "loaded" =>
    /\ ~loadedState.err
    /\ loadedState.SourceDir = rsMeta.SourceDir
    /\ loadedState.DestDir = rsMeta.DestDir
    /\ loadedState.Incremental = rsMeta.Incremental
    /\ loadedState.ProcessedFiles = ProcessedFiles

\* C38: a resumed incremental run applies the watermark of the interrupted run
\* it continues: the rows the interrupted run inserted for its own copies do not
\* raise the watermark, and a file the interrupted run left unprocessed is
\* SkippedIncremental on resume only if the interrupted run's watermark skips
\* it too.
C38_ResumeKeepsWatermark ==
  /\ phase \in {"returned", "panicked"} /\ hist.cancelledInExec /\ stateFile.exists
  /\ incremental /\ ~resumed
  => /\ Watermark(incremental, dbRows) = minMtime
     /\ \A i \in 1..Len(files) :
          /\ files[i].path \notin stateFile.paths
          /\ [path |-> files[i].path, state |-> "SkippedIncremental"] \in ResumedRun
          => skipsIncremental(files[i])

\* C39: at every crash point, each path listed in the state file on disk whose
\* file was copied has its hash row in the durable index: no path is listed
\* while its record is only in the batch in memory, and every listed path with
\* a Copied result has its row.
C39_MarkedOnlyWhenIndexed ==
  stateFile.exists =>
    /\ \A i \in 1..Len(records) :
         records[i].src \in stateFile.paths => \E r \in dbRows : r.hash = records[i].hash
    /\ \A i \in 1..Len(orderedResults) :
         orderedResults[i].state = "Copied" /\ orderedResults[i].path \in stateFile.paths
           => \E r \in dbRows : r.hash = getFileHash(execFiles[i])

====
